---- MODULE Spec2Model ----
(***************************************************************************)
(* A model of the pattern-driven extraction engine of letterexplorer:      *)
(*   - MarkupParser  (src/research/markup_parser.py)                       *)
(*   - RegexParser   (src/regex_parser.stable.py)                          *)
(*                                                                         *)
(* Python strings are TLA+ strings; a character is a string of length 1    *)
(* and positions are 1-based (Python offset k is position k+1).  A slice   *)
(* text[a:b] of Python is Slice(text, a+1, b+1) here: start inclusive, end *)
(* exclusive.                                                              *)
(*                                                                         *)
(* The module is written in ASCII, so the Cyrillic letters the code tests  *)
(* for are written with stand-ins that occur nowhere else in the inputs:   *)
(*     CYR_DE  "D"  stands for U+0414 (the second rejection marker of the  *)
(*                  key_value_table strategy),                             *)
(*     CYR_EN  "n"  stands for U+043D (the first letter of the placeholder *)
(*                  for "not specified" of the structured strategy).       *)
(* Cyrillic words of the examples are transliterated ("Bec", "Dlina",      *)
(* "Rekomend", "stali marki").                                             *)
(***************************************************************************)
EXTENDS Integers, Sequences, FiniteSets, TLC

----------------------------------------------------------------------------
(* Python str operations                                                   *)

\* the characters of s at positions a..b, clipped to the string as a Python
\* slice is
Sub(s, a, b) ==
    LET lo == IF a < 1 THEN 1 ELSE a
        hi == IF b > Len(s) THEN Len(s) ELSE b
    IN  IF lo > hi THEN "" ELSE SubSeq(s, lo, hi)

At(s, i) == Sub(s, i, i)

\* s[a-1 : b-1] of Python, with 1-based a (inclusive) and b (exclusive)
Slice(s, a, b) == Sub(s, a, b - 1)

DigitChars == {"0", "1", "2", "3", "4", "5", "6", "7", "8", "9"}
\* a digit that is not a decimal digit, U+00B2: str.isdigit() accepts it,
\* int() does not
SUPERSCRIPT_TWO == "~"
SpaceChars == {" ", "\n", "\t"}
UpperChars == "ABCDEFGHIJKLMNOPQRSTUVWXYZ"
LowerChars == "abcdefghijklmnopqrstuvwxyz"

\* s.startswith(p)
startswith(s, p) == Len(p) <= Len(s) /\ Sub(s, 1, Len(p)) = p

\* s.endswith(p)
endswith(s, p) ==
    Len(p) <= Len(s) /\ Sub(s, Len(s) - Len(p) + 1, Len(s)) = p

MinOf(S) == CHOOSE x \in S : \A y \in S : x <= y
MaxOf(S) == CHOOSE x \in S : \A y \in S : x >= y
\* the k-th smallest element of a set of numbers
NthOf(S, k) == CHOOSE x \in S : Cardinality({y \in S : y < x}) = k - 1

\* position of the first occurrence of p in s at or after position from,
\* 0 when there is none  (s.find(p) + 1)
find_from(s, p, from) ==
    LET first(hits) == IF hits = {} THEN 0 ELSE MinOf(hits)
    IN  first({k \in from..(Len(s) - Len(p) + 1) : Sub(s, k, k + Len(p) - 1) = p})

\* p in s
contains(s, p) == find_from(s, p, 1) # 0

\* s.index(p) + 1 (the code calls it only when p is in s)
index(s, p) == find_from(s, p, 1)

IsLetter(c) == Len(c) = 1 /\ contains(UpperChars \o LowerChars, c)

\* str.lower() on one character
lower(c) ==
    LET at(k) == IF k = 0 THEN c ELSE At(LowerChars, k)
    IN  IF Len(c) = 1 THEN at(find_from(UpperChars, c, 1)) ELSE c

\* s.isdigit()
isdigit(s) ==
    Len(s) > 0 /\ \A i \in 1..Len(s) : At(s, i) \in DigitChars \cup {SUPERSCRIPT_TWO}

\* int(s) accepts s: a string of decimal digits
isdecimal(s) == Len(s) > 0 /\ \A i \in 1..Len(s) : At(s, i) \in DigitChars

\* the positions of s that hold no whitespace
NonSpace(s) == {i \in 1..Len(s) : At(s, i) \notin SpaceChars}

\* s.strip()
strip(s) ==
    LET between(ns) == IF ns = {} THEN "" ELSE Sub(s, MinOf(ns), MaxOf(ns))
    IN  between(NonSpace(s))

\* s.split(sep) for a one-character separator: a sequence of strings
split(s, sep) ==
    LET parts(at, n) ==
            LET cut(k) == IF k = 0 THEN 0 ELSE IF k = n + 1 THEN Len(s) + 1
                          ELSE NthOf(at, k)
                part(a, b) == Sub(s, a + 1, b - 1)
            IN  [k \in 1..(n + 1) |-> part(cut(k - 1), cut(k))]
        cuts(at) == parts(at, Cardinality(at))
    IN  cuts({i \in 1..Len(s) : At(s, i) = sep})

\* s.split(sep, 1)
split1(s, sep) ==
    LET at(k) == IF k = 0 THEN <<s>> ELSE <<Sub(s, 1, k - 1), Sub(s, k + 1, Len(s))>>
    IN  at(find_from(s, sep, 1))

\* s.split(): maximal runs of non-whitespace characters
split_ws(s) ==
    LET stop(a) == MinOf({j \in a..Len(s) : j = Len(s) \/ At(s, j + 1) \in SpaceChars})
        word(a) == Sub(s, a, stop(a))
        words(starts) == [k \in 1..Cardinality(starts) |-> word(NthOf(starts, k))]
    IN  words({i \in NonSpace(s) : i = 1 \/ At(s, i - 1) \in SpaceChars})

\* sep.join(parts)
RECURSIVE join(_, _)
join(sep, parts) ==
    IF Len(parts) = 0 THEN ""
    ELSE IF Len(parts) = 1 THEN parts[1]
    ELSE parts[1] \o sep \o join(sep, Tail(parts))

----------------------------------------------------------------------------
(* Python re: the subset of the pattern language the inputs use.           *)
(*   atoms        literal, \d \s \S \w, \<punctuation>, \n, .              *)
(*   quantifiers  * + ? {n} {n,} {,m} {n,m} (one digit each), lazy with ?  *)
(*   groups       ( ... ) and (?P<name> ... ), nested, not quantified      *)
(*   anchors      ^ $                                                      *)
(* A compiled pattern is a flat sequence of items; "open"/"close" items    *)
(* record the group boundaries.  Alternation, character classes,           *)
(* look-around, backreferences, quantified groups, possessive quantifiers, *)
(* \b and the escapes \a \f \r \t \v \0.. are outside the subset and occur  *)
(* in no input of the model.                                               *)

INF == -1

Item(t, c, lo, hi, lazy, g) ==
    [t |-> t, c |-> c, lo |-> lo, hi |-> hi, lazy |-> lazy, g |-> g]

CompileError == [ok |-> FALSE, items |-> <<>>, groups |-> 0, names |-> <<>>]

DigitVal(c) == CHOOSE n \in 0..9 : At("0123456789", n + 1) = c

IsDigitAt(src, j) == j <= Len(src) /\ At(src, j) \in DigitChars

\* the quantifier that starts at position j of src, if any
re_quantifier(src, j) ==
    LET none == [has |-> FALSE, lo |-> 1, hi |-> 1, next |-> j]
        quant(lo, hi, next) == [has |-> TRUE, lo |-> lo, hi |-> hi, next |-> next]
        \* b is the text between the braces, next the position after them
        braces(b, next) ==
            IF Len(b) = 1 /\ b \in DigitChars
            THEN quant(DigitVal(b), DigitVal(b), next)
            ELSE IF Len(b) = 2 /\ At(b, 1) \in DigitChars /\ At(b, 2) = ","
            THEN quant(DigitVal(At(b, 1)), INF, next)
            ELSE IF Len(b) = 2 /\ At(b, 1) = "," /\ At(b, 2) \in DigitChars
            THEN quant(0, DigitVal(At(b, 2)), next)
            ELSE IF Len(b) = 3 /\ At(b, 1) \in DigitChars /\ At(b, 2) = ","
                    /\ At(b, 3) \in DigitChars
            THEN quant(DigitVal(At(b, 1)), DigitVal(At(b, 3)), next)
            ELSE none
        from(c, close) ==
            IF c = "*" THEN quant(0, INF, j + 1)
            ELSE IF c = "+" THEN quant(1, INF, j + 1)
            ELSE IF c = "?" THEN quant(0, 1, j + 1)
            ELSE IF c = "{" /\ close # 0 THEN braces(Slice(src, j + 1, close), close + 1)
            ELSE none
    IN  from(At(src, j), find_from(src, "}", j))

\* the atom that starts at position i of src, which starts no quantifier:
\* [ok, t, c, next]
re_atom(src, i) ==
    LET bad == [ok |-> FALSE, t |-> "", c |-> "", next |-> i]
        atom(t, c, next) == [ok |-> TRUE, t |-> t, c |-> c, next |-> next]
        escape(d) ==
            IF d = "" THEN bad                   \* bad escape (end of pattern)
            ELSE IF d = "d" THEN atom("digit", "", i + 2)
            ELSE IF d = "s" THEN atom("space", "", i + 2)
            ELSE IF d = "S" THEN atom("nonspace", "", i + 2)
            ELSE IF d = "w" THEN atom("word", "", i + 2)
            ELSE IF d = "n" THEN atom("lit", "\n", i + 2)
            ELSE IF IsLetter(d) \/ d \in DigitChars THEN bad   \* bad escape
            ELSE atom("lit", d, i + 2)
        from(c) ==
            IF c = "\\" THEN escape(At(src, i + 1))
            ELSE IF c = "." THEN atom("any", "", i + 1)
            ELSE atom("lit", c, i + 1)
    IN  from(At(src, i))

\* the characters that are not plain literals
SpecialChars == {"\\", ".", "(", ")", "^", "$", "*", "+", "?", "{"}

\* the last position of the run of plain literals that starts at position i
\* of src: the run is one item; a quantifier repeats one character only, so
\* the character before a quantifier is left out of a longer run
re_literal_end(src, i) ==
    LET last(stops) == IF stops = {} THEN Len(src) ELSE MinOf(stops) - 1
        run(e) == IF e > i /\ e < Len(src) /\ re_quantifier(src, e + 1).has
                  THEN e - 1 ELSE e
    IN  run(last({j \in i..Len(src) : At(src, j) \in SpecialChars}))

\* re.compile, from position i on; open is the stack of open groups and
\* prev tells what stands before position i: "" (nothing), "atom", "quant",
\* "open", "close" or "anchor"
RECURSIVE re_parse(_, _, _, _, _, _)
re_parse(src, i, items, open, names, prev) ==
    LET group_open(named, close) ==
            IF named /\ (close = 0 \/ close = i + 4) THEN CompileError
            ELSE IF ~named /\ At(src, i + 1) = "?" THEN CompileError
            ELSE re_parse(src, IF named THEN close + 1 ELSE i + 1,
                          Append(items, Item("open", "", 1, 1, FALSE, Len(names) + 1)),
                          <<Len(names) + 1>> \o open,
                          Append(names, IF named THEN Sub(src, i + 4, close - 1) ELSE ""),
                          "open")
        repeat(q, lazy) ==
            IF prev # "atom" THEN CompileError   \* nothing to repeat, multiple repeat
            ELSE IF q.hi # INF /\ q.hi < q.lo
            THEN CompileError                    \* min repeat greater than max repeat
            ELSE re_parse(src, IF lazy THEN q.next + 1 ELSE q.next,
                          [items EXCEPT ![Len(items)] = Item(@.t, @.c, q.lo, q.hi, lazy, 0)],
                          open, names, "quant")
        literal(e) ==
            re_parse(src, e + 1,
                     Append(items, Item("lit", Slice(src, i, e + 1), 1, 1, FALSE, 0)),
                     open, names, "atom")
        step(c, q, a) ==
            IF q.has THEN repeat(q, At(src, q.next) = "?")
            ELSE IF c \notin SpecialChars THEN literal(re_literal_end(src, i))
            ELSE IF c = "("
            THEN group_open(Sub(src, i + 1, i + 3) = "?P<", find_from(src, ">", i + 4))
            ELSE IF c = ")"
            THEN IF Len(open) = 0 THEN CompileError      \* unbalanced parenthesis
                 ELSE re_parse(src, i + 1,
                               Append(items, Item("close", "", 1, 1, FALSE, Head(open))),
                               Tail(open), names, "close")
            ELSE IF c \in {"^", "$"}
            THEN re_parse(src, i + 1,
                          Append(items, Item(IF c = "^" THEN "bol" ELSE "eol",
                                             "", 1, 1, FALSE, 0)),
                          open, names, "anchor")
            ELSE IF c = "\\" /\ At(src, i + 1) \in {"A", "Z"}
            THEN re_parse(src, i + 2,
                          Append(items, Item(IF At(src, i + 1) = "A" THEN "bos" ELSE "eos",
                                             "", 1, 1, FALSE, 0)),
                          open, names, "anchor")
            ELSE IF ~a.ok THEN CompileError
            ELSE re_parse(src, a.next, Append(items, Item(a.t, a.c, 1, 1, FALSE, 0)),
                          open, names, "atom")
    IN  IF i > Len(src)
        THEN IF Len(open) > 0 THEN CompileError  \* missing ), unterminated subpattern
             ELSE [ok |-> TRUE, items |-> items, groups |-> Len(names), names |-> names]
        ELSE step(At(src, i), re_quantifier(src, i), re_atom(src, i))

re_compile(src) == re_parse(src, 1, <<>>, <<>>, <<>>, "")

\* the flags of a compiled pattern: re.IGNORECASE, re.MULTILINE, re.DOTALL
Flags(i, m, s) == [I |-> i, M |-> m, S |-> s]
NoFlags == Flags(FALSE, FALSE, FALSE)
AllFlags == Flags(TRUE, TRUE, TRUE)

AtomMatches(it, ch, flags) ==
    CASE it.t = "lit"      -> IF flags.I THEN lower(ch) = lower(it.c) ELSE ch = it.c
      [] it.t = "digit"    -> ch \in DigitChars
      [] it.t = "space"    -> ch \in SpaceChars
      [] it.t = "nonspace" -> ch \notin SpaceChars
      [] it.t = "word"     -> IsLetter(ch) \/ ch \in DigitChars \/ ch = "_"
      [] it.t = "any"      -> flags.S \/ ch # "\n"
      [] OTHER             -> FALSE

\* the item, taken once, matches the text at pos: a run of literals matches
\* character by character, any other atom matches one character
OnceMatches(it, text, pos, flags) ==
    IF it.t = "lit"
    THEN /\ pos + Len(it.c) - 1 <= Len(text)
         /\ \A n \in 1..Len(it.c) :
               AtomMatches([it EXCEPT !.c = At(it.c, n)], At(text, pos + n - 1), flags)
    ELSE pos <= Len(text) /\ AtomMatches(it, At(text, pos), flags)

\* how many characters from pos on the atom matches in a row, at most limit
re_run(it, text, pos, flags, limit) ==
    LET upto(cap) ==
            LET first(stops) == IF stops = {} THEN cap ELSE MinOf(stops)
            IN  first({n \in 0..(cap - 1) : ~AtomMatches(it, At(text, pos + n), flags)})
        within(rest) == upto(IF limit = INF \/ limit > rest THEN rest ELSE limit)
    IN  within(Len(text) - pos + 1)

NoMatch == [ok |-> FALSE, s |-> 0, e |-> 0, caps |-> <<>>]

\* of the attempts f (a function from numbers to match results) the
\* successful one with the smallest argument, or with the largest
FirstOk(f) ==
    LET first(oks) == IF oks = {} THEN NoMatch ELSE f[MinOf(oks)]
    IN  first({x \in DOMAIN f : f[x].ok})

LastOk(f) ==
    LET last(oks) == IF oks = {} THEN NoMatch ELSE f[MaxOf(oks)]
    IN  last({x \in DOMAIN f : f[x].ok})

\* the backtracking matcher: items k.. against text from pos on; an overall
\* match that ends at position forbid is rejected (the scanner's must_advance)
\* the repetition counts of a quantified atom are tried in the order of
\* preference (greedy: most first; lazy: fewest first) and the first count
\* with which the rest of the pattern matches is taken
RECURSIVE re_match_at(_, _, _, _, _, _, _, _)
re_match_at(items, k, text, start, pos, caps, flags, forbid) ==
    LET next(at, captured) ==
            re_match_at(items, k + 1, text, start, at, captured, flags, forbid)
        prefer(it, rest) == IF it.lazy THEN FirstOk(rest) ELSE LastOk(rest)
        bol == pos = 1 \/ (flags.M /\ At(text, pos - 1) = "\n")
        eol == \/ pos = Len(text) + 1
               \/ (flags.M /\ At(text, pos) = "\n")
               \/ (pos = Len(text) /\ At(text, pos) = "\n")
        item(it) ==
            CASE it.t = "open" -> next(pos, [caps EXCEPT ![it.g] = <<pos, pos>>])
              [] it.t = "close" -> next(pos, [caps EXCEPT ![it.g] = <<caps[it.g][1], pos>>])
              [] it.t = "bol" /\ bol -> next(pos, caps)
              [] it.t = "eol" /\ eol -> next(pos, caps)
              [] it.t = "bos" /\ pos = 1 -> next(pos, caps)
              [] it.t = "eos" /\ pos = Len(text) + 1 -> next(pos, caps)
              [] it.t \in {"bol", "eol", "bos", "eos"} -> NoMatch
              [] it.lo = 1 /\ it.hi = 1 /\ OnceMatches(it, text, pos, flags)
                    -> next(pos + (IF it.t = "lit" THEN Len(it.c) ELSE 1), caps)
              [] it.lo = 1 /\ it.hi = 1 -> NoMatch
              [] OTHER -> prefer(it, [n \in it.lo..re_run(it, text, pos, flags, it.hi) |->
                                         next(pos + n, caps)])
    IN  IF k > Len(items)
        THEN IF pos = forbid THEN NoMatch
             ELSE [ok |-> TRUE, s |-> start, e |-> pos, caps |-> caps]
        ELSE item(items[k])

\* regex.search(text) from position from on: the leftmost match; with
\* must_advance an empty match at from is not accepted
re_search_from(re, text, from, flags, must_advance) ==
    FirstOk([p \in from..(Len(text) + 1) |->
                re_match_at(re.items, 1, text, p, p,
                            [g \in 1..re.groups |-> <<0, 0>>], flags,
                            IF must_advance /\ p = from THEN from ELSE 0)])

re_search(re, text, flags) == re_search_from(re, text, 1, flags, FALSE)

\* regex.match(text): a match that starts at the beginning
re_match(re, text, flags) ==
    re_match_at(re.items, 1, text, 1, 1, [g \in 1..re.groups |-> <<0, 0>>], flags, 0)

\* list(regex.finditer(text)): the non-overlapping matches in document order
RECURSIVE re_finditer_from(_, _, _, _, _)
re_finditer_from(re, text, from, flags, must_advance) ==
    LET more(m) ==
            IF ~m.ok THEN <<>>
            ELSE <<m>> \o re_finditer_from(re, text, m.e, flags, m.e = m.s)
    IN  more(re_search_from(re, text, from, flags, must_advance))

re_finditer(re, text, flags) == re_finditer_from(re, text, 1, flags, FALSE)

\* match.group(i), match.start(), match.end() (1-based, end exclusive)
group(text, m, i) ==
    IF i = 0 THEN Slice(text, m.s, m.e) ELSE Slice(text, m.caps[i][1], m.caps[i][2])

\* match.groups()
groups(text, m) == [j \in 1..Len(m.caps) |-> group(text, m, j)]

----------------------------------------------------------------------------
(* Python values.  A value that the code stores in a result is tagged with *)
(* its Python type, so that a scalar and a list are never confused.        *)

None == [kind |-> "none"]
Str(s) == [kind |-> "str", v |-> s]
List(l) == [kind |-> "list", v |-> l]
Tuple(l) == [kind |-> "tuple", v |-> l]
Dict(d) == [kind |-> "dict", v |-> d]

\* bool(value): None, "", [], () and {} are falsy
truthy(val) ==
    CASE val.kind = "none" -> FALSE
      [] val.kind = "str"  -> val.v # ""
      [] val.kind = "dict" -> DOMAIN val.v # {}
      [] OTHER             -> Len(val.v) > 0

\* a sequence of strings as a sequence of str values
StrValues(seq) == [j \in 1..Len(seq) |-> Str(seq[j])]

\* the empty dict, and d[k] = v
EmptyDict == <<>>
Put(d, k, v) == [x \in (DOMAIN d) \cup {k} |-> IF x = k THEN v ELSE d[x]]

----------------------------------------------------------------------------
(* MarkupParser: helpers that read the document                            *)

\* self.document_lines = document_text.split('\n')
document_lines(document_text) == split(document_text, "\n")

\* ' '.join(text.split())
normalize_spaces(text) == join(" ", split_ws(text))

\* MarkupParser._find_in_document: the loop over the lines from line i on
RECURSIVE find_in_lines(_, _, _)
find_in_lines(lines, i, text_normalized) ==
    LET check(line_normalized) ==
            IF text_normalized = line_normalized THEN Str(line_normalized)
            ELSE IF startswith(line_normalized, text_normalized)
            THEN Str(text_normalized)
            ELSE find_in_lines(lines, i + 1, text_normalized)
    IN  IF i > Len(lines) THEN None ELSE check(normalize_spaces(lines[i]))

\* MarkupParser._find_in_document
find_in_document(document_text, text) ==
    LET find(text_normalized) ==
            IF contains(document_text, text_normalized) THEN Str(text_normalized)
            ELSE find_in_lines(document_lines(document_text), 1, text_normalized)
    IN  find(normalize_spaces(text))

\* the value one match contributes for a label "key: group_num"
match_value(text, m, group_num) ==
    IF Len(m.caps) > 0 /\ group_num > 0 /\ group_num <= Len(m.caps)
    THEN group(text, m, group_num)
    ELSE IF Len(m.caps) > 0 THEN group(text, m, 1)
    ELSE group(text, m, 0)

\* int(s) for a string of digits
RECURSIVE int_of(_)
int_of(s) ==
    IF Len(s) = 0 THEN 0
    ELSE 10 * int_of(Sub(s, 1, Len(s) - 1)) + DigitVal(At(s, Len(s)))

\* the line-by-line search: line_ms[i] is regex.search(line) on line i; every
\* hit is kept
RECURSIVE search_lines(_, _, _, _, _)
search_lines(lines, line_ms, i, group_num, with_group) ==
    LET hit(line, m) ==
            IF ~m.ok THEN <<>>
            ELSE IF with_group THEN <<match_value(line, m, group_num)>>
            ELSE <<group(line, m, 0)>>
    IN  IF i > Len(lines) THEN <<>>
        ELSE hit(lines[i], line_ms[i])
             \o search_lines(lines, line_ms, i + 1, group_num, with_group)

\* the line-by-line search that stops at the first line that matches
RECURSIVE search_lines_first(_, _, _)
search_lines_first(lines, line_ms, i) ==
    IF i > Len(lines) THEN <<>>
    ELSE IF line_ms[i].ok THEN <<group(lines[i], line_ms[i], 0)>>
    ELSE search_lines_first(lines, line_ms, i + 1)

\* the branch of _find_by_regex for a label "key: group": every match of the
\* document contributes, whatever find_all is; ms is regex.finditer on the
\* document
find_with_group(document_text, label_part, ms, line_ms) ==
    LET found(group_num, results) ==
            IF Len(results) > 0 THEN results
            ELSE search_lines(document_lines(document_text), line_ms, 1, group_num, TRUE)
        values(group_num) ==
            found(group_num,
                  [j \in 1..Len(ms) |-> match_value(document_text, ms[j], group_num)])
        number(group_num_str) ==
            IF isdigit(group_num_str) THEN int_of(group_num_str) ELSE 0
    IN  values(number(strip(split1(label_part, ":")[2])))

\* a search that always adds what the lines give on their own
find_all_matches_both(document_text, ms, line_ms) ==
    [j \in 1..Len(ms) |-> group(document_text, ms[j], 0)]
        \o search_lines(document_lines(document_text), line_ms, 1, 0, FALSE)

\* the branch of _find_by_regex for a plain label with find_all = True
find_all_matches(document_text, ms, line_ms) ==
    LET found(results) ==
            IF Len(results) > 0 THEN results
            ELSE search_lines(document_lines(document_text), line_ms, 1, 0, FALSE)
    IN  found([j \in 1..Len(ms) |-> group(document_text, ms[j], 0)])

\* the branch of _find_by_regex for a plain label with find_all = False:
\* regex.search on the document is the first match of regex.finditer
find_first_match(document_text, ms, line_ms) ==
    IF Len(ms) > 0 THEN <<group(document_text, ms[1], 0)>>
    ELSE search_lines_first(document_lines(document_text), line_ms, 1)

\* int(group_num_str.strip()) raises ValueError: the group number of the
\* label passes isdigit() and is no literal for int()
label_raises(label_part) ==
    /\ contains(label_part, ":")
    /\ isdigit(strip(split1(label_part, ":")[2]))
    /\ ~isdecimal(strip(split1(label_part, ":")[2]))

\* MarkupParser._find_by_regex raises ValueError: the pattern compiles and
\* the group number of the label is no literal for int()
find_by_regex_raises(pattern, label_part) ==
    re_compile(pattern).ok /\ label_raises(label_part)

\* MarkupParser._find_by_regex: [raised, found], found being the list of
\* strings it returns; a pattern that does not compile is reported and gives
\* the empty list
find_by_regex_call(document_text, pattern, label_part, find_all) ==
    LET searched(ms, line_ms) ==
            IF contains(label_part, ":")
            THEN find_with_group(document_text, label_part, ms, line_ms)
            ELSE IF find_all THEN find_all_matches(document_text, ms, line_ms)
            ELSE find_first_match(document_text, ms, line_ms)
        on(re, lines) == [j \in 1..Len(lines) |-> re_search(re, lines[j], AllFlags)]
        by(re) ==
            [raised |-> re.ok /\ label_raises(label_part),
             found |->
                 IF ~re.ok \/ label_raises(label_part) THEN <<>>
                 ELSE searched(re_finditer(re, document_text, AllFlags),
                               on(re, document_lines(document_text)))]
    IN  by(re_compile(pattern))

\* what MarkupParser._find_by_regex returns
find_by_regex(document_text, pattern, label_part, find_all) ==
    find_by_regex_call(document_text, pattern, label_part, find_all).found

----------------------------------------------------------------------------
(* MarkupParser: the section handlers                                      *)

\* a [META] or [PARAMS] line as the code takes it apart: is_regex, the text
\* or pattern before the first "{", and the label between the first "{" and
\* the first "}"
meta_line_parts(line0) ==
    LET parts(is_regex, line) ==
            [is_regex |-> is_regex,
             text_part |-> strip(Slice(line, 1, index(line, "{"))),
             label_part |-> strip(Slice(line, index(line, "{") + 1, index(line, "}")))]
        of(stripped) ==
            IF startswith(stripped, "@REGEX")
            THEN parts(TRUE, strip(Sub(stripped, 7, Len(stripped))))
            ELSE parts(FALSE, line0)
    IN  of(strip(line0))

\* the search of a [META] or [PARAMS] line: [raised, values]
line_values(document_text, parts, find_all) ==
    LET regex(call) == [raised |-> call.raised, values |-> StrValues(call.found)]
    IN  IF parts.is_regex
        THEN regex(find_by_regex_call(document_text, parts.text_part,
                                      parts.label_part, find_all))
        ELSE [raised |-> FALSE,
              values |-> <<find_in_document(document_text, parts.text_part)>>]

\* the values found in the document for one [META] line: [raised, values]
meta_line_values(document_text, parts) ==
    line_values(document_text, parts, strip(parts.label_part) = "addressee")

\* one value stored in the metadata: a label with a colon overwrites, a plain
\* label promotes the key to a list when it already has a value
meta_store(metadata, label_part, value) ==
    IF ~truthy(value) THEN metadata
    ELSE IF contains(label_part, ":")
    THEN Put(metadata, strip(split1(label_part, ":")[1]), value)
    ELSE LET key == label_part
         IN  IF key \in DOMAIN metadata
             THEN LET existing == metadata[key]
                  IN  IF existing.kind = "list"
                      THEN Put(metadata, key, List(Append(existing.v, value)))
                      ELSE Put(metadata, key, List(<<existing, value>>))
             ELSE Put(metadata, key, value)

RECURSIVE meta_store_all(_, _, _, _)
meta_store_all(metadata, label_part, values, i) ==
    IF i > Len(values) THEN metadata
    ELSE meta_store_all(meta_store(metadata, label_part, values[i]),
                        label_part, values, i + 1)

\* MarkupParser._parse_meta, from line i of the section on: [raised,
\* metadata]; a line whose search raises ends the loop with what is stored
RECURSIVE parse_meta(_, _, _, _)
parse_meta(metadata, document_text, content, i) ==
    LET found(parts, r) ==
            IF r.raised THEN [raised |-> TRUE, metadata |-> metadata]
            ELSE parse_meta(meta_store_all(metadata, parts.label_part, r.values, 1),
                            document_text, content, i + 1)
        store(parts) == found(parts, meta_line_values(document_text, parts))
    IN  IF i > Len(content) THEN [raised |-> FALSE, metadata |-> metadata]
        ELSE IF ~contains(content[i], "{") \/ ~contains(content[i], "}")
        THEN parse_meta(metadata, document_text, content, i + 1)
        ELSE store(meta_line_parts(content[i]))

\* the values found in the document for one [PARAMS] line: [raised, values]
params_line_values(document_text, parts) == line_values(document_text, parts, FALSE)

\* one value stored in the technical parameters: always a plain overwrite
params_store(technical_params, label_part, value) ==
    IF ~truthy(value) THEN technical_params
    ELSE IF contains(label_part, ":")
    THEN Put(technical_params, strip(split1(label_part, ":")[1]), value)
    ELSE Put(technical_params, label_part, value)

\* MarkupParser._parse_params, from line i of the section on: of the values
\* of a line only the first is stored
RECURSIVE parse_params(_, _, _, _)
parse_params(technical_params, document_text, content, i) ==
    LET first(parts, r) ==
            IF r.raised THEN [raised |-> TRUE, technical_params |-> technical_params]
            ELSE parse_params(IF Len(r.values) > 0
                              THEN params_store(technical_params, parts.label_part,
                                                r.values[1])
                              ELSE technical_params,
                              document_text, content, i + 1)
        store(parts) == first(parts, params_line_values(document_text, parts))
    IN  IF i > Len(content) THEN [raised |-> FALSE, technical_params |-> technical_params]
        ELSE IF ~contains(content[i], "{") \/ ~contains(content[i], "}")
        THEN parse_params(technical_params, document_text, content, i + 1)
        ELSE store(meta_line_parts(content[i]))

\* token.replace('.', ',')
RECURSIVE replace_dots(_)
replace_dots(token) ==
    IF Len(token) = 0 THEN ""
    ELSE (IF Head(token) = "." THEN "," ELSE Head(token)) \o replace_dots(Tail(token))

\* the placeholder for "not specified" (U+043D "." U+0431, with or without
\* the final dot), written with the stand-in CYR_EN
NB == "n.b"
NBDot == "n.b."

\* re.search(r'\d|<NB>', line): the line holds a digit or the placeholder
has_number_or_nb(line) ==
    (\E i \in 1..Len(line) : At(line, i) \in DigitChars) \/ contains(line, NB)

\* re.match(r'[\d,\.]+$|<NB>\.?$', token)
is_value_token(token) ==
    \/ Len(token) > 0 /\ \A i \in 1..Len(token) : At(token, i) \in DigitChars \cup {",", "."}
    \/ token = NB
    \/ token = NBDot

\* the value tokens of one data line
RECURSIVE row_tokens(_, _)
row_tokens(tokens, i) ==
    IF i > Len(tokens) THEN <<>>
    ELSE (IF is_value_token(tokens[i])
          THEN <<IF tokens[i] # NBDot /\ tokens[i] # NB
                 THEN replace_dots(tokens[i]) ELSE tokens[i]>>
          ELSE <<>>)
         \o row_tokens(tokens, i + 1)

\* a document line names the row marker
marker_found(line_stripped, marker) ==
    \/ line_stripped = marker
    \/ startswith(line_stripped, marker \o " ")
    \/ startswith(line_stripped, marker \o ":")
    \/ (endswith(marker, ":") /\ contains(line_stripped, marker))

\* MarkupParser._find_table_row_values, from document line i on
RECURSIVE find_table_row_values_from(_, _, _, _, _)
find_table_row_values_from(lines, marker, i, in_row, values) ==
    LET row(line_stripped) ==
            IF marker_found(line_stripped, marker)
            THEN find_table_row_values_from(lines, marker, i + 1, TRUE, values)
            ELSE IF ~in_row
            THEN find_table_row_values_from(lines, marker, i + 1, in_row, values)
            ELSE IF has_number_or_nb(line_stripped)
            THEN find_table_row_values_from(lines, marker, i + 1, in_row,
                     values \o row_tokens(split_ws(line_stripped), 1))
            ELSE values
    IN  IF i > Len(lines) THEN values ELSE row(strip(lines[i]))

find_table_row_values(document_text, marker) ==
    find_table_row_values_from(document_lines(document_text), marker, 1, FALSE, <<>>)

\* the word the code looks for in a document line that names a table
\* (U+0422 ... "Tablica"), transliterated
TableWord == "Tablica"

\* the table number a regex @START marker finds: the first match in the first
\* document line that holds the table word and matches
RECURSIVE start_marker_number(_, _, _, _)
start_marker_number(re, lines, i, table_number) ==
    LET found(line, m) ==
            IF m.ok THEN group(line, m, 0)
            ELSE start_marker_number(re, lines, i + 1, table_number)
    IN  IF i > Len(lines) THEN table_number
        ELSE found(lines[i], IF contains(lines[i], TableWord)
                             THEN re_search(re, lines[i], NoFlags) ELSE NoMatch)

\* the parser state of _parse_table
ModeNone == [m |-> "none", row_name |-> "", row_marker |-> ""]
ModeColumns == [m |-> "columns", row_name |-> "", row_marker |-> ""]
ModeRow(row_name, row_marker) ==
    [m |-> "row", row_name |-> row_name, row_marker |-> row_marker]

\* re.compile(r'@ROW\s+(\w+):\s*(.+)')
RowDirective == re_compile("@ROW\\s+(\\w+):\\s*(.+)")

new_table_data(table_name) ==
    [table_name |-> table_name, table_number |-> "", description |-> "",
     columns |-> <<>>, rows |-> EmptyDict, data |-> EmptyDict]

\* a placeholder line that stores the values and stays in the row state
row_values_kept(st, values) ==
    [st EXCEPT !.table_data.rows =
         IF Len(values) > 0 THEN Put(@, st.mode.row_name, values) ELSE @]

\* the placeholder line read in the row state: the values found are stored
\* under the row name when there are any, and the mode becomes None
row_values_found(st, values) ==
    [table_data |->
         IF Len(values) > 0
         THEN [st.table_data EXCEPT !.rows = Put(@, st.mode.row_name, values)]
         ELSE st.table_data,
     mode |-> ModeNone]

\* one line of a [TABLE] section: st = [table_data, mode]
parse_table_line(st, document_text, line0) ==
    LET td == st.table_data
        number(marker, re) ==
            IF isdigit(marker) THEN marker
            ELSE IF ~re.ok THEN marker
            ELSE start_marker_number(re, document_lines(document_text), 1, td.table_number)
        start(marker) ==
            [st EXCEPT !.table_data.table_number = number(marker, re_compile(marker))]
        row(line, m) ==
            IF m.ok THEN [st EXCEPT !.mode = ModeRow(group(line, m, 1), group(line, m, 2))]
            ELSE st
        handle(line) ==
            IF startswith(line, "@START:") THEN start(strip(Sub(line, 8, Len(line))))
            ELSE IF startswith(line, "@END:") THEN st
            ELSE IF line = "@COLUMNS:" THEN [st EXCEPT !.mode = ModeColumns]
            ELSE IF startswith(line, "@ROW")
            THEN row(line, re_match(RowDirective, line, NoFlags))
            ELSE IF st.mode.m = "columns"
            THEN [st EXCEPT !.table_data.columns = Append(td.columns, line)]
            ELSE IF st.mode.m = "row"
            THEN IF contains(line, "{{") /\ contains(line, "values")
                 THEN row_values_found(st, find_table_row_values(document_text,
                                                                 st.mode.row_marker))
                 ELSE st
            ELSE st
    IN  handle(strip(line0))

RECURSIVE parse_table_lines(_, _, _, _)
parse_table_lines(st, document_text, content, i) ==
    IF i > Len(content) THEN st
    ELSE parse_table_lines(parse_table_line(st, document_text, content[i]),
                           document_text, content, i + 1)

\* MarkupParser._parse_table: the table appended to result.tables
parse_table(document_text, content, table_name) ==
    parse_table_lines([table_data |-> new_table_data(table_name), mode |-> ModeNone],
                      document_text, content, 1).table_data

\* MarkupParser._extract_text_between, one turn of the loop over the document
\* lines: [capturing, text_parts, stop], stop telling that the loop is left
extract_text_step(start_marker, end_marker, capturing, text_parts, line) ==
    LET turn(line_stripped) ==
            IF contains(line_stripped, start_marker)
            THEN [capturing |-> TRUE, text_parts |-> text_parts, stop |-> FALSE]
            ELSE IF contains(line_stripped, end_marker) /\ capturing
            THEN [capturing |-> capturing, text_parts |-> text_parts, stop |-> TRUE]
            ELSE [capturing |-> capturing,
                  text_parts |-> IF capturing THEN Append(text_parts, line) ELSE text_parts,
                  stop |-> FALSE]
    IN  turn(strip(line))

\* MarkupParser._extract_text_between, from document line i on: the lines
\* captured (joined by the caller)
RECURSIVE extract_text_parts(_, _, _, _, _, _)
extract_text_parts(lines, start_marker, end_marker, i, capturing, text_parts) ==
    LET next(st) ==
            IF st.stop THEN st.text_parts
            ELSE extract_text_parts(lines, start_marker, end_marker, i + 1, st.capturing,
                                    st.text_parts)
    IN  IF i > Len(lines) THEN text_parts
        ELSE next(extract_text_step(start_marker, end_marker, capturing, text_parts,
                                    lines[i]))

extract_text_between(document_text, start_marker, end_marker) ==
    join("\n", extract_text_parts(document_lines(document_text),
                                 start_marker, end_marker, 1, FALSE, <<>>))

\* the end of subsection i: the start of the next match, or the end of the text
subsection_end(section_text, matches, i) ==
    IF i + 1 <= Len(matches) THEN matches[i + 1].s ELSE Len(section_text) + 1

\* the text stored for match i
subsection_text(section_text, matches, i) ==
    strip(Slice(section_text, matches[i].e, subsection_end(section_text, matches, i)))

\* the loop of _extract_subsections from match i on; match.group(1) raises
\* IndexError when the pattern has no group
RECURSIVE subsections_from(_, _, _, _)
subsections_from(section_text, matches, i, subsections) ==
    IF i > Len(matches) THEN [raised |-> FALSE, v |-> subsections]
    ELSE IF Len(matches[i].caps) = 0 THEN [raised |-> TRUE, v |-> subsections]
    ELSE subsections_from(section_text, matches, i + 1,
                          Put(subsections, group(section_text, matches[i], 1),
                              subsection_text(section_text, matches, i)))

\* MarkupParser._extract_subsections: a pattern that does not compile is
\* reported and gives the empty dict
extract_subsections(section_text, pattern) ==
    LET by(re) ==
            IF ~re.ok THEN [raised |-> FALSE, v |-> EmptyDict]
            ELSE subsections_from(section_text,
                                  re_finditer(re, section_text, Flags(FALSE, TRUE, FALSE)),
                                  1, EmptyDict)
    IN  by(re_compile(pattern))

\* the markers a [SECTION] declares: the last @START:, @END:, @SUBSECTIONS:
\* line each (the empty string when there is none: None and "" are both
\* falsy, and the code only tests them for truth)
RECURSIVE section_markers(_, _, _)
section_markers(content, i, mk) ==
    IF i > Len(content) THEN mk
    ELSE LET line == content[i]
         IN  section_markers(content, i + 1,
                 IF startswith(line, "@START:")
                 THEN [mk EXCEPT !.start_marker = strip(Sub(line, 8, Len(line)))]
                 ELSE IF startswith(line, "@END:")
                 THEN [mk EXCEPT !.end_marker = strip(Sub(line, 6, Len(line)))]
                 ELSE IF startswith(line, "@SUBSECTIONS:")
                 THEN [mk EXCEPT !.subsection_pattern = strip(Sub(line, 14, Len(line)))]
                 ELSE mk)

\* MarkupParser._parse_section: [raised, sections]
parse_section(sections, document_text, content, section_name) ==
    LET unchanged == [raised |-> FALSE, sections |-> sections]
        stored(section_text, subs) ==
            IF subs.raised THEN [raised |-> TRUE, sections |-> sections]
            ELSE [raised |-> FALSE,
                  sections |-> Put(sections, section_name,
                                   [full_text |-> section_text, subsections |-> subs.v])]
        divided(mk, section_text) ==
            IF section_text = "" THEN unchanged
            ELSE stored(section_text,
                        IF mk.subsection_pattern # ""
                        THEN extract_subsections(section_text, mk.subsection_pattern)
                        ELSE [raised |-> FALSE, v |-> EmptyDict])
        with(mk) ==
            IF mk.start_marker = "" \/ mk.end_marker = "" THEN unchanged
            ELSE divided(mk, extract_text_between(document_text, mk.start_marker,
                                                  mk.end_marker))
    IN  with(section_markers(content, 1,
                 [start_marker |-> "", end_marker |-> "", subsection_pattern |-> ""]))

----------------------------------------------------------------------------
(* MarkupParser: the section splitter and parse                            *)

\* the state of _split_into_sections; current_section is None or "" when no
\* section is open (both falsy: the code only tests it for truth)
SplitInit == [sections |-> <<>>, current_section |-> "", current_content |-> <<>>]

\* a turn whose closing line emits the section and leaves it open
split_line_end_stays(st, line) ==
    LET closed == IF st.current_section # ""
                  THEN Append(st.sections, <<st.current_section, st.current_content>>)
                  ELSE st.sections
        handle(line_stripped) ==
            IF line_stripped = "" \/ startswith(line_stripped, "#") THEN st
            ELSE IF startswith(line_stripped, "[") /\ ~startswith(line_stripped, "[END]")
            THEN [sections |-> closed,
                  current_section |-> Sub(line_stripped, 2, Len(line_stripped) - 1),
                  current_content |-> <<>>]
            ELSE IF line_stripped = "[END]"
            THEN [st EXCEPT !.sections = closed]
            ELSE IF st.current_section # ""
            THEN [st EXCEPT !.current_content = Append(st.current_content, line_stripped)]
            ELSE st
    IN  handle(strip(line))

\* one markup line
split_line(st, line) ==
    LET closed == IF st.current_section # ""
                  THEN Append(st.sections, <<st.current_section, st.current_content>>)
                  ELSE st.sections
        handle(line_stripped) ==
            IF line_stripped = "" \/ startswith(line_stripped, "#") THEN st
            ELSE IF startswith(line_stripped, "[") /\ ~startswith(line_stripped, "[END]")
            THEN [sections |-> closed,
                  current_section |-> Sub(line_stripped, 2, Len(line_stripped) - 1),
                  current_content |-> <<>>]
            ELSE IF line_stripped = "[END]"
            THEN [sections |-> closed, current_section |-> "", current_content |-> <<>>]
            ELSE IF st.current_section # ""
            THEN [st EXCEPT !.current_content = Append(st.current_content, line_stripped)]
            ELSE st
    IN  handle(strip(line))

RECURSIVE split_lines(_, _, _)
split_lines(st, lines, i) ==
    IF i > Len(lines) THEN st ELSE split_lines(split_line(st, lines[i]), lines, i + 1)

\* MarkupParser._split_into_sections
split_into_sections(markup_text) ==
    split_lines(SplitInit, split(markup_text, "\n"), 1).sections

\* section_type.split()[1] if len(section_type.split()) > 1 else 'unknown'
section_name_of(section_type) ==
    LET second(words) == IF Len(words) > 1 THEN words[2] ELSE "unknown"
    IN  second(split_ws(section_type))

\* the body of the loop of parse for one section: st = [raised, data], data
\* being result['extracted_data']
parse_one(st, document_text, section_type, section_content) ==
    LET d == st.data
        section(r) == [raised |-> r.raised, data |-> [d EXCEPT !.sections = r.sections]]
        meta(r) == [raised |-> r.raised, data |-> [d EXCEPT !.metadata = r.metadata]]
        params(r) ==
            [raised |-> r.raised,
             data |-> [d EXCEPT !.technical_params = r.technical_params]]
    IN  IF section_type = "META"
        THEN meta(parse_meta(d.metadata, document_text, section_content, 1))
        ELSE IF section_type = "PARAMS"
        THEN params(parse_params(d.technical_params, document_text, section_content, 1))
        ELSE IF startswith(section_type, "TABLE")
        THEN [st EXCEPT !.data.tables =
                 Append(d.tables, parse_table(document_text, section_content,
                                              section_name_of(section_type)))]
        ELSE IF startswith(section_type, "SECTION")
        THEN section(parse_section(d.sections, document_text, section_content,
                                   section_name_of(section_type)))
        ELSE st

RECURSIVE parse_sections(_, _, _, _)
parse_sections(st, document_text, sections, i) ==
    IF i > Len(sections) \/ st.raised THEN st
    ELSE parse_sections(parse_one(st, document_text, sections[i][1], sections[i][2]),
                        document_text, sections, i + 1)

\* MarkupParser.__init__: the result of a new parser
new_extracted_data ==
    [metadata |-> EmptyDict, technical_params |-> EmptyDict,
     sections |-> EmptyDict, tables |-> <<>>]

\* MarkupParser.parse on a parser whose result holds data: [raised, data]
parse(data, markup_text, document_text) ==
    parse_sections([raised |-> FALSE, data |-> data], document_text,
                   split_into_sections(markup_text), 1)

----------------------------------------------------------------------------
(* str(value) and repr(value) of Python, for the values a pattern returns  *)

\* f applied to every character of s[lo..hi], concatenated
RECURSIVE map_chars(_, _, _, _)
map_chars(f, s, lo, hi) ==
    IF lo > hi THEN ""
    ELSE IF lo = hi THEN f[At(s, lo)]
    ELSE map_chars(f, s, lo, (lo + hi) \div 2) \o map_chars(f, s, (lo + hi) \div 2 + 1, hi)

\* repr of a str: quoted, with the quote, the backslash and the control
\* characters escaped; dq tells that the double quote is the delimiter
repr_str(s) ==
    LET esc(c, dq) ==
            IF c = "\\" THEN "\\\\"
            ELSE IF c = "\n" THEN "\\n"
            ELSE IF c = "\t" THEN "\\t"
            ELSE IF c = "'" /\ ~dq THEN "\\'"
            ELSE c
        quoted(quote, body) == quote \o body \o quote
        with(dq) ==
            quoted(IF dq THEN "\"" ELSE "'",
                   map_chars([c \in {At(s, j) : j \in 1..Len(s)} |-> esc(c, dq)],
                             s, 1, Len(s)))
    IN  with(contains(s, "'") /\ ~contains(s, "\""))

\* the keys of a dict in the order repr prints them: the model's dicts hold
\* at most one named group
RECURSIVE py_repr(_)
py_repr(val) ==
    CASE val.kind = "none"  -> "None"
      [] val.kind = "str"   -> repr_str(val.v)
      [] val.kind = "list"  ->
            "[" \o join(", ", [j \in 1..Len(val.v) |-> py_repr(val.v[j])]) \o "]"
      [] val.kind = "tuple" ->
            "(" \o join(", ", [j \in 1..Len(val.v) |-> py_repr(val.v[j])])
                \o (IF Len(val.v) = 1 THEN "," ELSE "") \o ")"
      [] val.kind = "dict"  ->
            "{" \o join(", ", [j \in 1..Cardinality(DOMAIN val.v) |->
                       LET k == CHOOSE x \in DOMAIN val.v : TRUE
                       IN  repr_str(k) \o ": " \o py_repr(val.v[k])]) \o "}"

\* str(value)
py_str(val) == IF val.kind = "str" THEN val.v ELSE py_repr(val)

----------------------------------------------------------------------------
(* RegexParser                                                             *)

\* d.get(k, default)
Get(d, k, default) == IF k \in DOMAIN d THEN d[k] ELSE default

\* the flags a pattern descriptor names
flags_of(flags_list) ==
    Flags("IGNORECASE" \in flags_list, "MULTILINE" \in flags_list, "DOTALL" \in flags_list)

\* one element of re.findall: the match, its group, or the tuple of its groups
findall_item(text, m) ==
    IF Len(m.caps) = 0 THEN Str(group(text, m, 0))
    ELSE IF Len(m.caps) = 1 THEN Str(group(text, m, 1))
    ELSE Tuple(StrValues(groups(text, m)))

\* re.findall(pattern, text, flags) for a pattern that compiles
re_findall(re, text, flags) ==
    LET items(ms) == [j \in 1..Len(ms) |-> findall_item(text, ms[j])]
    IN  items(re_finditer(re, text, flags))

\* match.groupdict(): the named groups
groupdict(re, text, m) ==
    [nm \in {re.names[g] : g \in {g \in 1..re.groups : re.names[g] # ""}} |->
        Str(group(text, m, CHOOSE g \in 1..re.groups : re.names[g] = nm))]

\* extract_with_pattern as it would be if a single match were not unwrapped:
\* the list of matches is returned whatever its length
extract_with_pattern_list(text, pattern_info) ==
    LET found(matches) == IF Len(matches) = 0 THEN None ELSE List(matches)
        by(pattern, re, flags) ==
            IF pattern = "" \/ ~re.ok THEN None
            ELSE IF contains(pattern, "(?P<")
            THEN LET named(m) == IF m.ok THEN Dict(groupdict(re, text, m)) ELSE None
                 IN  named(re_search(re, text, flags))
            ELSE found(re_findall(re, text, flags))
        with(pattern) ==
            by(pattern, re_compile(pattern), flags_of(Get(pattern_info, "flags", {})))
    IN  with(Get(pattern_info, "pattern", ""))

\* extract_with_pattern as it would be if the except branch returned the
\* error text instead of None
extract_with_pattern_error(text, pattern_info) ==
    LET found(matches) ==
            IF Len(matches) = 0 THEN None
            ELSE IF Len(matches) = 1 THEN matches[1]
            ELSE List(matches)
        by(pattern, re, flags) ==
            IF pattern = "" THEN None
            ELSE IF ~re.ok THEN Str("error")
            ELSE IF contains(pattern, "(?P<")
            THEN LET named(m) == IF m.ok THEN Dict(groupdict(re, text, m)) ELSE None
                 IN  named(re_search(re, text, flags))
            ELSE found(re_findall(re, text, flags))
        with(pattern) ==
            by(pattern, re_compile(pattern), flags_of(Get(pattern_info, "flags", {})))
    IN  with(Get(pattern_info, "pattern", ""))

\* RegexParser.extract_with_pattern: None, a str, a tuple, a list or a dict
extract_with_pattern(text, pattern_info) ==
    LET named(re, m) == IF m.ok THEN Dict(groupdict(re, text, m)) ELSE None
        found(matches) ==
            IF Len(matches) = 0 THEN None
            ELSE IF Len(matches) = 1 THEN matches[1]
            ELSE List(matches)
        by(pattern, re, flags) ==
            IF pattern = "" THEN None
            ELSE IF ~re.ok THEN None             \* re.error: reported, None returned
            ELSE IF contains(pattern, "(?P<")
            THEN named(re, re_search(re, text, flags))
            ELSE found(re_findall(re, text, flags))
        with(pattern) ==
            by(pattern, re_compile(pattern), flags_of(Get(pattern_info, "flags", {})))
    IN  with(Get(pattern_info, "pattern", ""))

\* the fields of a group whose pattern gives a truthy result, with the result
extract_fields(text, fields) ==
    LET kept(result) == [key \in {k \in DOMAIN result : truthy(result[k])} |-> result[key]]
    IN  kept([key \in DOMAIN fields |-> extract_with_pattern(text, fields[key])])

\* RegexParser.extract_metadata
extract_metadata(patterns, text) ==
    IF "metadata" \notin DOMAIN patterns THEN EmptyDict
    ELSE extract_fields(text, patterns["metadata"])

\* RegexParser.extract_technical_params
extract_technical_params(patterns, text) ==
    IF "technical_params" \notin DOMAIN patterns THEN EmptyDict
    ELSE extract_fields(text, patterns["technical_params"])

\* the letters the code tests a value line for: Latin "N" and U+0414
LATIN_N == "N"
CYR_DE == "D"
\* the letter a placeholder token starts with: U+043D
CYR_EN == "n"

\* a table result that forgets the declared identity
table_identity_unnamed(table_info) ==
    [table_name |-> "unknown", table_number |-> "", description |-> "",
     columns |-> <<>>, rows |-> EmptyDict, data |-> EmptyDict]

\* a table result before any strategy has run
table_identity(table_info) ==
    [table_name |-> Get(table_info, "table_name", "unknown"),
     table_number |-> Get(table_info, "table_number", ""),
     description |-> Get(table_info, "description", ""),
     columns |-> <<>>, rows |-> EmptyDict, data |-> EmptyDict]

\* the pattern descriptor the single-pattern strategies build
table_pattern_info(table_info) ==
    [pattern |-> table_info["pattern"], flags |-> Get(table_info, "flags", {})]

\* a filter that keeps only the tokens that start with a digit
keeps_token_digit(val) == val # "" /\ At(val, 1) \in DigitChars

\* structured: a token is kept when it starts with a digit or with CYR_EN
keeps_token(val) == val # "" /\ (At(val, 1) \in DigitChars \/ startswith(val, CYR_EN))

\* structured: the values of a row text
row_values(row_text) == SelectSeq(split_ws(row_text), keeps_token)

\* structured: the row names in the order the code visits them
RowNames == <<"recommended", "certificate", "espz">>

\* structured: the result of extract_with_pattern for "elements" and for
\* every row name that the structure holds
structured_results(text, structure) ==
    [name \in ({"elements"} \cup {RowNames[j] : j \in 1..Len(RowNames)})
                  \cap DOMAIN structure |->
        extract_with_pattern(text, structure[name])]

\* structured: the rows dict, from the results of the searches
structured_rows(found) ==
    [row_name \in {r \in DOMAIN found \ {"elements"} : truthy(found[r])} |->
        row_values(py_str(found[row_name]))]

\* structured: the columns list, from the results of the searches
structured_columns(found) ==
    IF "elements" \in DOMAIN found /\ truthy(found["elements"])
    THEN split_ws(py_str(found["elements"]))
    ELSE <<>>

\* key_value_table: the stripped non-empty lines of the body
body_lines(result) ==
    LET stripped(ls) == [j \in 1..Len(ls) |-> strip(ls[j])]
    IN  SelectSeq(stripped(split(strip(result), "\n")), LAMBDA l : l # "")

\* key_value_table: a would-be value is rejected
rejected(value) == startswith(value, LATIN_N) \/ startswith(value, CYR_DE)

\* a pairing loop that consumes two lines on every turn
kv_step_pairs(lines, i, data) ==
    IF i + 1 < Len(lines) /\ ~rejected(lines[i + 2])
    THEN [i |-> i + 2, data |-> Put(data, lines[i + 1], lines[i + 2])]
    ELSE [i |-> i + 2, data |-> data]

\* key_value_table: one turn of the pairing loop, i being the 0-based index
kv_step(lines, i, data) ==
    IF i + 1 < Len(lines)
    THEN LET key == lines[i + 1]
             value == lines[i + 2]
         IN  IF ~rejected(value)
             THEN [i |-> i + 2, data |-> Put(data, key, value)]
             ELSE [i |-> i + 1, data |-> data]
    ELSE [i |-> i + 1, data |-> data]

\* key_value_table: while i < len(lines)
RECURSIVE kv_loop(_, _, _)
kv_loop(lines, i, data) ==
    LET continue(st) == kv_loop(lines, st.i, st.data)
    IN  IF i < Len(lines) THEN continue(kv_step(lines, i, data)) ELSE data

\* str.replace(c, '') for every c of removed, then str.isdigit()
isdigit_without(s, removed) ==
    /\ \A j \in 1..Len(s) : At(s, j) \in DigitChars \cup {SUPERSCRIPT_TWO} \cup removed
    /\ \E j \in 1..Len(s) : At(s, j) \in DigitChars \cup {SUPERSCRIPT_TWO}

\* the test the tables 5 and 6 put a token to
is_number_token(part) == isdigit_without(part, {",", "."})

\* structured_table_2: three header lines, then three rows of two values
structured_table_2(table_data, result) ==
    LET line(ls, j) == strip(ls[j])
        by(ls) ==
            IF Len(ls) >= 9
            THEN [raised |-> FALSE,
                  table |-> Put(Put(table_data, "headers",
                                    <<line(ls, 1), line(ls, 2), line(ls, 3)>>),
                                "values",
                                <<<<line(ls, 4), line(ls, 5)>>, <<line(ls, 6), line(ls, 7)>>,
                                  <<line(ls, 8), line(ls, 9)>>>>)]
            ELSE IF Len(ls) >= 6
            THEN [raised |-> TRUE,                  \* IndexError: lines[6..8]
                  table |-> Put(table_data, "headers",
                                <<line(ls, 1), line(ls, 2), line(ls, 3)>>)]
            ELSE [raised |-> FALSE, table |-> Put(table_data, "raw_text", result.v)]
    IN  IF ~truthy(result) THEN [raised |-> FALSE, table |-> table_data]
        ELSE IF result.kind # "str"
        THEN [raised |-> TRUE, table |-> table_data]      \* AttributeError: strip
        ELSE by(split(strip(result.v), "\n"))

\* structured_table_4: a line of digits and signs starts the data
table_4_data_line(line0) ==
    \/ isdigit_without(line0, {"+", ",", ".", "-", " "})
    \/ (isdigit(line0) /\ int_of(line0) >= 85)

\* a turn that decides for every line anew whether it is data
table_4_step_two_way(data_started, header_lines, rows, line0) ==
    LET with(st) ==
            IF line0 = ""
            THEN [data_started |-> data_started, header_lines |-> header_lines,
                  rows |-> rows]
            ELSE IF ~st
            THEN [data_started |-> st, header_lines |-> Append(header_lines, line0),
                  rows |-> rows]
            ELSE IF Len(split_ws(line0)) >= 3
            THEN [data_started |-> st, header_lines |-> header_lines,
                  rows |-> Append(rows, split_ws(line0))]
            ELSE [data_started |-> st, header_lines |-> header_lines, rows |-> rows]
    IN  with(table_4_data_line(line0))

\* structured_table_4, one turn of `for line in lines` on the stripped line:
\* the header lines, then the rows of three or more parts
table_4_step(data_started, header_lines, rows, line0) ==
    LET with(st) ==
            IF line0 = ""
            THEN [data_started |-> data_started, header_lines |-> header_lines,
                  rows |-> rows]
            ELSE IF ~st
            THEN [data_started |-> st, header_lines |-> Append(header_lines, line0),
                  rows |-> rows]
            ELSE IF Len(split_ws(line0)) >= 3
            THEN [data_started |-> st, header_lines |-> header_lines,
                  rows |-> Append(rows, split_ws(line0))]
            ELSE [data_started |-> st, header_lines |-> header_lines, rows |-> rows]
    IN  with(data_started \/ table_4_data_line(line0))

\* structured_table_4: the loop over the lines, from line j on
RECURSIVE table_4_loop(_, _, _, _, _)
table_4_loop(ls, j, data_started, header_lines, rows) ==
    LET next(st) == table_4_loop(ls, j + 1, st.data_started, st.header_lines, st.rows)
    IN  IF j > Len(ls) THEN [headers |-> header_lines, rows |-> rows]
        ELSE next(table_4_step(data_started, header_lines, rows, strip(ls[j])))

\* structured_table_4
structured_table_4(table_data, result) ==
    LET stored(t) ==
            [raised |-> FALSE,
             table |-> Put([table_data EXCEPT !.rows = t.rows], "headers", t.headers)]
    IN  IF ~truthy(result) THEN [raised |-> FALSE, table |-> table_data]
        ELSE IF result.kind # "str"
        THEN [raised |-> TRUE, table |-> table_data]      \* AttributeError: strip
        ELSE stored(table_4_loop(split(strip(result.v), "\n"), 1, FALSE, <<>>, <<>>))

\* the caption the tables 5 skip: "Полоса прокаливаемости"
HardenabilityBand == "Polosa prokalivaemosti"

\* a turn that also takes HRC for a marker: the line leaves no list active
table_5_step_reset(current_list, lists, line0) ==
    LET numbers == SelectSeq(split_ws(line0), is_number_token)
    IN  IF contains(line0, HardenabilityBand)
        THEN [current_list |-> current_list, lists |-> lists]
        ELSE IF line0 = "MM" THEN [current_list |-> "distances_mm", lists |-> lists]
        ELSE IF line0 = "min" THEN [current_list |-> "min_hrc", lists |-> lists]
        ELSE IF line0 = "HRC" THEN [current_list |-> "", lists |-> lists]
        ELSE IF line0 = "max" THEN [current_list |-> "max_hrc", lists |-> lists]
        ELSE IF line0 # "" /\ current_list # ""
        THEN [current_list |-> current_list,
              lists |-> [lists EXCEPT ![current_list] = @ \o numbers]]
        ELSE [current_list |-> current_list, lists |-> lists]

\* structured_table_5, one turn of `for line in lines` on the stripped line:
\* the lines MM, min and max choose the list that the number tokens of the
\* following lines go to; current_list = "" stands for None
table_5_step(current_list, lists, line0) ==
    LET numbers == SelectSeq(split_ws(line0), is_number_token)
    IN  IF contains(line0, HardenabilityBand)
        THEN [current_list |-> current_list, lists |-> lists]
        ELSE IF line0 = "MM" THEN [current_list |-> "distances_mm", lists |-> lists]
        ELSE IF line0 = "min" THEN [current_list |-> "min_hrc", lists |-> lists]
        ELSE IF line0 = "HRC" THEN [current_list |-> current_list, lists |-> lists]
        ELSE IF line0 = "max" THEN [current_list |-> "max_hrc", lists |-> lists]
        ELSE IF line0 # "" /\ current_list # ""
        THEN [current_list |-> current_list,
              lists |-> [lists EXCEPT ![current_list] = @ \o numbers]]
        ELSE [current_list |-> current_list, lists |-> lists]

\* structured_table_5: the loop over the lines, from line j on
RECURSIVE table_5_loop(_, _, _, _)
table_5_loop(ls, j, current_list, lists) ==
    LET next(st) == table_5_loop(ls, j + 1, st.current_list, st.lists)
    IN  IF j > Len(ls) THEN lists
        ELSE next(table_5_step(current_list, lists, strip(ls[j])))

\* structured_table_5
structured_table_5(table_data, result) ==
    LET stored(lists) ==
            [raised |-> FALSE,
             table |-> Put(Put(Put([table_data EXCEPT !.data = EmptyDict],
                                   "distances_mm", lists.distances_mm),
                               "min_hrc", lists.min_hrc),
                           "max_hrc", lists.max_hrc)]
    IN  IF ~truthy(result) THEN [raised |-> FALSE, table |-> table_data]
        ELSE IF result.kind # "str"
        THEN [raised |-> TRUE, table |-> table_data]      \* AttributeError: strip
        ELSE stored(table_5_loop(split(strip(result.v), "\n"), 1, "",
                                 [distances_mm |-> <<>>, min_hrc |-> <<>>,
                                  max_hrc |-> <<>>]))

\* the words of the header lines the table 6 skips: "Диаметр", "Степень",
\* "проката", "обжатия"
Table6HeaderWords == {"Diametr", "Stepen", "prokata", "obzhatija"}

\* structured_table_6, `for part in parts`: a number token goes to
\* current_row, and two of them make one record of data
RECURSIVE table_6_parts(_, _, _, _)
table_6_parts(parts, k, current_row, data) ==
    IF k > Len(parts) THEN [current_row |-> current_row, data |-> data]
    ELSE IF ~is_number_token(parts[k]) THEN table_6_parts(parts, k + 1, current_row, data)
    ELSE IF Len(current_row) = 1
    THEN table_6_parts(parts, k + 1, <<>>,
                       Append(data, [diameter_mm |-> current_row[1],
                                     compression_degree |-> parts[k]]))
    ELSE table_6_parts(parts, k + 1, Append(current_row, parts[k]), data)

\* a turn that starts every line with an empty current_row
table_6_step_per_line(current_row, data, line0) ==
    IF line0 = "" \/ line0 = ";" THEN [current_row |-> current_row, data |-> data]
    ELSE IF \E word \in Table6HeaderWords : contains(line0, word)
    THEN [current_row |-> current_row, data |-> data]
    ELSE table_6_parts(split_ws(line0), 1, <<>>, data)

\* structured_table_6, one turn of `for line in lines` on the stripped line
table_6_step(current_row, data, line0) ==
    IF line0 = "" \/ line0 = ";" THEN [current_row |-> current_row, data |-> data]
    ELSE IF \E word \in Table6HeaderWords : contains(line0, word)
    THEN [current_row |-> current_row, data |-> data]
    ELSE table_6_parts(split_ws(line0), 1, current_row, data)

\* structured_table_6: the loop over the lines, from line j on
RECURSIVE table_6_loop(_, _, _, _)
table_6_loop(ls, j, current_row, data) ==
    LET next(st) == table_6_loop(ls, j + 1, st.current_row, st.data)
    IN  IF j > Len(ls) THEN data
        ELSE next(table_6_step(current_row, data, strip(ls[j])))

\* structured_table_6
structured_table_6(table_data, result) ==
    IF ~truthy(result) THEN [raised |-> FALSE, table |-> table_data]
    ELSE IF result.kind # "str"
    THEN [raised |-> TRUE, table |-> table_data]      \* AttributeError: strip
    ELSE [raised |-> FALSE,
          table |-> [table_data EXCEPT
                        !.data = table_6_loop(split(strip(result.v), "\n"), 1,
                                              <<>>, <<>>)]]

\* the branch of the descriptors that name no strategy: header_pattern,
\* row_names and value_patterns
legacy_table(text, table_info, table_data) ==
    LET columns(header_result) ==
            IF ~truthy(header_result) THEN table_data.columns
            ELSE IF header_result.kind = "list" THEN header_result.v
            ELSE <<header_result>>
        values(value_patterns, found) ==
            [value_key \in {k \in DOMAIN value_patterns :
                               truthy(found[value_patterns[k]])} |->
                found[value_patterns[value_key]]]
        \* found[p]: the result of extract_with_pattern for the pattern p
        build(found) ==
            [raised |-> FALSE,
             table |-> [table_data EXCEPT
                           !.columns = IF "header_pattern" \in DOMAIN table_info
                                       THEN columns(found[table_info["header_pattern"]])
                                       ELSE @,
                           !.rows = IF "row_names" \in DOMAIN table_info
                                    THEN table_info["row_names"] ELSE @,
                           !.data = IF "value_patterns" \in DOMAIN table_info
                                    THEN values(table_info["value_patterns"], found)
                                    ELSE @]]
        searched(ps) == [p \in ps |-> extract_with_pattern(text, [pattern |-> p])]
        value_patterns_of(d) == {d[k] : k \in DOMAIN d}
    IN  build(searched((IF "header_pattern" \in DOMAIN table_info
                        THEN {table_info["header_pattern"]} ELSE {})
                       \cup (IF "value_patterns" \in DOMAIN table_info
                             THEN value_patterns_of(table_info["value_patterns"])
                             ELSE {})))

\* RegexParser.extract_table: [raised, table]
extract_table(text, table_info) ==
    LET done(t) == [raised |-> FALSE, table |-> t]
        with(table_data, key, val) ==
            [x \in (DOMAIN table_data) \cup {key} |-> IF x = key THEN val ELSE table_data[x]]
        simple(table_data, result) ==
            IF ~truthy(result) THEN done(table_data)
            ELSE done(with(table_data, "raw_data",
                           IF result.kind = "tuple" THEN List(result.v) ELSE result))
        key_value_table(table_data, result) ==
            IF ~truthy(result) THEN done(table_data)
            ELSE IF result.kind # "str"
            THEN [raised |-> TRUE, table |-> table_data]  \* AttributeError: strip
            ELSE done([table_data EXCEPT
                          !.data = kv_loop(body_lines(result.v), 0, EmptyDict)])
        text_block(table_data, result) ==
            IF ~truthy(result) THEN done(table_data)
            ELSE done(with(table_data, "raw_text", py_str(result)))
        structured(table_data, found) ==
            done([table_data EXCEPT !.columns = structured_columns(found),
                                    !.rows = structured_rows(found)])
        by(extraction_method, table_data, result) ==
            IF extraction_method = "structured" /\ "structure" \in DOMAIN table_info
            THEN structured(table_data, structured_results(text, table_info["structure"]))
            ELSE IF extraction_method = "simple" /\ "pattern" \in DOMAIN table_info
            THEN simple(table_data, result)
            ELSE IF extraction_method = "structured_table_2" /\ "pattern" \in DOMAIN table_info
            THEN structured_table_2(table_data, result)
            ELSE IF extraction_method = "key_value_table" /\ "pattern" \in DOMAIN table_info
            THEN key_value_table(table_data, result)
            ELSE IF extraction_method = "structured_table_4" /\ "pattern" \in DOMAIN table_info
            THEN structured_table_4(table_data, result)
            ELSE IF extraction_method = "structured_table_5" /\ "pattern" \in DOMAIN table_info
            THEN structured_table_5(table_data, result)
            ELSE IF extraction_method = "structured_table_6" /\ "pattern" \in DOMAIN table_info
            THEN structured_table_6(table_data, result)
            ELSE IF extraction_method = "text_block" /\ "pattern" \in DOMAIN table_info
            THEN text_block(table_data, result)
            ELSE legacy_table(text, table_info, table_data)
    IN  by(Get(table_info, "extraction_method", "structured"), table_identity(table_info),
           extract_with_pattern(text, table_pattern_info(table_info)))

\* RegexParser.extract_tables: [raised, tables]
extract_tables(patterns, text) ==
    LET all(each) ==
            [raised |-> \E j \in DOMAIN each : each[j].raised,
             tables |-> [j \in DOMAIN each |-> each[j].table]]
        of(infos) == all([j \in 1..Len(infos) |-> extract_table(text, infos[j])])
    IN  of(IF "tables" \in DOMAIN patterns THEN patterns["tables"] ELSE <<>>)

\* the subsections dict of extract_sections: every match stores its second
\* group under its first group, both stripped
RECURSIVE json_subsections(_, _, _, _)
json_subsections(result, matches, i, subsections) ==
    IF i > Len(matches) THEN subsections
    ELSE json_subsections(result, matches, i + 1,
                          Put(subsections, strip(group(result, matches[i], 1)),
                              strip(group(result, matches[i], 2))))

\* one section of extract_sections: [raised, found, value]
extract_section(text, pattern_info) ==
    LET out(v) == [raised |-> FALSE, found |-> TRUE, value |-> v]
        raise == [raised |-> TRUE, found |-> FALSE, value |-> None]
        stored(result, subsections) ==
            IF DOMAIN subsections # {}
            THEN out([kind |-> "section", full_text |-> result.v,
                      subsections |-> subsections])
            ELSE out(result)
        matched(result, re, matches) ==
            IF Len(matches) > 0 /\ re.groups < 2 THEN raise   \* IndexError
            ELSE stored(result, json_subsections(result.v, matches, 1, EmptyDict))
        divided(result, re) ==
            IF ~re.ok THEN raise                    \* re.error, not caught
            ELSE IF result.kind # "str" THEN raise  \* TypeError: not a string
            ELSE matched(result, re, re_finditer(re, result.v, Flags(FALSE, TRUE, TRUE)))
        by(extraction_method, result) ==
            IF ~truthy(result) THEN [raised |-> FALSE, found |-> FALSE, value |-> None]
            ELSE IF /\ extraction_method = "structured_subsections"
                    /\ "subsection_pattern" \in DOMAIN pattern_info
            THEN divided(result, re_compile(pattern_info["subsection_pattern"]))
            ELSE out(result)
    IN  by(Get(pattern_info, "extraction_method", "simple"),
           extract_with_pattern(text, pattern_info))

\* RegexParser.extract_sections: [raised, sections]
extract_sections(patterns, text) ==
    LET all(each) ==
            [raised |-> \E name \in DOMAIN each : each[name].raised,
             sections |-> [name \in {n \in DOMAIN each : each[n].found} |->
                              each[name].value]]
        of(specs) == all([name \in DOMAIN specs |-> extract_section(text, specs[name])])
    IN  of(IF "sections" \in DOMAIN patterns THEN patterns["sections"] ELSE EmptyDict)

\* RegexParser.parse_document: [raised, result]
parse_document(patterns, text) ==
    LET result(sections, tables) ==
            [raised |-> sections.raised \/ tables.raised,
             result |-> [metadata |-> extract_metadata(patterns, text),
                         technical_params |-> extract_technical_params(patterns, text),
                         sections |-> sections.sections,
                         tables |-> tables.tables]]
    IN  result(extract_sections(patterns, text), extract_tables(patterns, text))

\* the text of a re.error; the model keeps no message text
ErrorText == "error"

\* one entry of LLMRegexAnalyzer.validate_with_regex
validate_field(text, pattern_info) ==
    LET entry(matches) ==
            [pattern_valid |-> TRUE, matches_found |-> Len(matches),
             first_match |-> IF Len(matches) > 0 THEN matches[1] ELSE None]
        by(re) ==
            IF re.ok
            THEN entry(re_findall(re, text, flags_of(Get(pattern_info, "flags", {}))))
            ELSE [pattern_valid |-> FALSE, error |-> ErrorText]
    IN  by(re_compile(pattern_info["pattern"]))

\* LLMRegexAnalyzer.validate_with_regex: an entry for every field of every
\* section that has regex_patterns
validate_with_regex(text, regex_patterns) ==
    LET fields(fs) ==
            [field_name \in {f \in DOMAIN fs : "pattern" \in DOMAIN fs[f]} |->
                validate_field(text, fs[field_name])]
    IN  [section_name \in {n \in DOMAIN regex_patterns :
                              "regex_patterns" \in DOMAIN regex_patterns[n]} |->
            fields(regex_patterns[section_name]["regex_patterns"])]

\* ---------------------------------------------------------------------
\* The state: one MarkupParser object, one RegexParser object, and the
\* arguments and results of the calls made on them.

VARIABLES
    markup_text,        \* MarkupParser.markup_text
    document_text,      \* MarkupParser.document_text, and the text given to RegexParser
    extracted_data,     \* MarkupParser.result["extracted_data"]
    returned,           \* what each MarkupParser.parse call returned, as read at its return
    patterns,           \* RegexParser.patterns
    results,            \* what each RegexParser.parse_document call returned
    validation_results, \* what LLMRegexAnalyzer.validate_with_regex returned
    find_call,          \* the last _find_by_regex call: its arguments and returned list
    section_text,       \* the text of a section that is split into subsections
    subsection_pattern, \* the subsection pattern of that section
    markup_subsections, \* what _extract_subsections returned for it
    json_section,       \* what extract_sections stored for it
    lines,              \* key_value_table: the body lines
    kv_i,               \* key_value_table: the loop index i
    data,               \* key_value_table: table_data['data']
    visited,            \* key_value_table: the indices the loop has visited, in order
    table_info,         \* the descriptor given to extract_table
    tables,             \* what each extract_table call returned, in order
    engines,            \* two parser objects that run side by side: their attributes
    heap,               \* the result dicts those objects fill in
    frame               \* a loop over lines that runs turn by turn: its local variables

markupVars == <<markup_text, extracted_data, returned>>
regexVars == <<patterns, results, validation_results>>
findVars == <<find_call>>
subVars == <<section_text, subsection_pattern, markup_subsections, json_section>>
kvVars == <<lines, kv_i, data, visited>>
tableVars == <<table_info, tables>>
engineVars == <<engines, heap>>
frameVars == <<frame>>
vars == <<markup_text, document_text, extracted_data, returned, patterns, results,
          validation_results, find_call, section_text, subsection_pattern, markup_subsections,
          json_section, lines, kv_i, data, visited, table_info, tables, engines, heap,
          frame>>

\* no pair of parsers runs side by side
EnginesIdle == engines = <<>> /\ heap = <<>>
\* no loop is run turn by turn
FrameIdle == frame = [loop |-> "none"]
\* no MarkupParser call is part of the run
MarkupIdle == markup_text = "" /\ extracted_data = new_extracted_data /\ returned = <<>>
\* no RegexParser.parse_document call is part of the run
RegexIdle == patterns = EmptyDict /\ results = <<>> /\ validation_results = None
\* no direct _find_by_regex call is part of the run
FindIdle == find_call = None
\* no subsection split is part of the run
SubIdle ==
    /\ section_text = "" /\ subsection_pattern = ""
    /\ markup_subsections = None /\ json_section = None
\* no pairing loop is part of the run
KVIdle == lines = <<>> /\ kv_i = 0 /\ data = EmptyDict /\ visited = <<>>
\* no direct extract_table call is part of the run
TableIdle == table_info = EmptyDict /\ tables = <<>>

\* ---------------------------------------------------------------------
\* Documents: every text of at most MaxDocLines lines over DocLines

MaxDocLines == 2

DocLines == {"04.2025", "stali marki 6856", "marki x"}

RECURSIVE SeqsUpTo(_, _)
SeqsUpTo(S, n) ==
    IF n = 0 THEN {<<>>}
    ELSE LET shorter == SeqsUpTo(S, n - 1)
         IN  shorter \cup {Append(q, x) : q \in {r \in shorter : Len(r) = n - 1}, x \in S}

Documents == {join("\n", ls) : ls \in SeqsUpTo(DocLines, MaxDocLines)}

\* ---------------------------------------------------------------------
\* Specifications: the same extraction rules as a markup text and as a
\* pattern set

MarkupOf(section, directives) == join("\n", <<section>> \o directives \o <<"[END]">>)

DateSpec ==
    [markup_text |-> MarkupOf("[META]", <<"@REGEX \\d{2}\\.\\d{4} { date }">>),
     patterns |-> [metadata |-> [date |-> [pattern |-> "\\d{2}\\.\\d{4}"]]]]

SteelGradeSpec ==
    [markup_text |-> MarkupOf("[PARAMS]", <<"@REGEX stali marki (\\d+) { steel_grade: 1 }">>),
     patterns |-> [technical_params |->
                      [steel_grade |-> [pattern |-> "stali marki (\\d+)"]]]]

MalformedFieldSpec ==
    [markup_text |-> MarkupOf("[META]", <<"@REGEX (\\d+ { number }",
                                           "@REGEX marki \\w+ { grade }">>),
     patterns |-> [metadata |-> [number |-> [pattern |-> "(\\d+"],
                                 grade |-> [pattern |-> "marki \\w+"]]]]

OptionalDigitsSpec ==
    [markup_text |-> MarkupOf("[PARAMS]", <<"@REGEX marki (\\d*) { grade: 1 }">>),
     patterns |-> [technical_params |-> [grade |-> [pattern |-> "marki (\\d*)"]]]]

NamedGroupSpec ==
    [markup_text |-> MarkupOf("[META]", <<"@REGEX marki (\\w+) { grade }", "marki { word }">>),
     patterns |-> [technical_params |-> [grade |-> [pattern |-> "marki (?P<grade>\\w+)"]]]]

TableSpec ==
    [markup_text |-> MarkupOf("[TABLE t1]", <<"@START: 1", "@COLUMNS:", "C", "Mn">>),
     patterns |-> [tables |-> <<[table_name |-> "t1", table_number |-> "1",
                                 extraction_method |-> "text_block",
                                 pattern |-> "stali (.*)"]>>]]

Specifications ==
    {DateSpec, SteelGradeSpec, MalformedFieldSpec, OptionalDigitsSpec, NamedGroupSpec,
     TableSpec}

\* ---------------------------------------------------------------------
\* Both parsers constructed over one specification and one document

MaxCalls == 2

Init ==
    /\ \E sp \in Specifications :
          /\ markup_text = sp.markup_text
          /\ patterns = sp.patterns
    /\ document_text \in Documents
    /\ extracted_data = new_extracted_data
    /\ returned = <<>>
    /\ results = <<>>
    /\ validation_results = None
    /\ FindIdle /\ SubIdle /\ KVIdle /\ TableIdle /\ EnginesIdle
    /\ FrameIdle

\* MarkupParser.parse() on the object: it fills the object's result in
\* place and returns it
Parse ==
    /\ Len(returned) < MaxCalls
    /\ LET return(r) == /\ extracted_data' = r.data
                         /\ returned' = Append(returned, r)
       IN  return(parse(extracted_data, markup_text, document_text))
    /\ UNCHANGED <<frameVars, engineVars, markup_text, document_text, regexVars, findVars,
                   subVars, kvVars, tableVars>>

\* RegexParser.parse_document(text) on the object
ParseDocument ==
    /\ Len(results) < MaxCalls
    /\ results' = Append(results, parse_document(patterns, document_text))
    /\ UNCHANGED <<frameVars, engineVars, patterns, validation_results, document_text,
                   markupVars, findVars, subVars, kvVars, tableVars>>

Next == Parse \/ ParseDocument

Spec == Init /\ [][Next]_vars

\* ---------------------------------------------------------------------
\* Properties of the two parsers

\* the document has a line equal to line
HasLine(text, line) == \E j \in 1..Len(document_lines(text)) : document_lines(text)[j] = line

\* how many lines of the document equal line
CountLines(text, line) ==
    Cardinality({j \in 1..Len(document_lines(text)) : document_lines(text)[j] = line})

\* C1: when MarkupParser.parse processes a [META] section that holds the line
\* `@REGEX \d{2}\.\d{4} { date }` against a document that has the line
\* 04.2025, the result has metadata["date"] = "04.2025".
C1_DateDirectiveStoresDate ==
    (/\ markup_text = DateSpec.markup_text
     /\ HasLine(document_text, "04.2025")
     /\ Len(returned) >= 1)
    => /\ "date" \in DOMAIN returned[1].data.metadata
       /\ returned[1].data.metadata["date"] = Str("04.2025")

\* C2: running the extraction twice over the same specification and text
\* gives identical results, for RegexParser.parse_document and for
\* MarkupParser.parse, the second run being a repeated call on the same
\* parser object.
C2_SecondRunSameResult ==
    /\ \A j, k \in 1..Len(results) : results[j] = results[k]
    /\ \A j, k \in 1..Len(returned) : returned[j] = returned[k]

\* the technical_params fields of the pattern set
TechnicalFields == Get(patterns, "technical_params", EmptyDict)

\* the compiled pattern of a field and its matches in the document by the
\* flags the field names (sets of one element: the quantifiers below bind
\* the value once)
FieldRegex(field) == {re_compile(field.pattern)}
FieldMatches(field, re) ==
    {re_finditer(re, document_text, flags_of(Get(field, "flags", {})))}

\* C9 (as amended): for a technical_params field whose pattern has one
\* capture group that is not a named group and matches the text exactly
\* once, capturing a non-empty text, parse_document stores the captured text
\* as a scalar string under the field's key; with the pattern
\* `stali marki (\d+)` and a text that holds `stali marki 6856` once the
\* result has technical_params.steel_grade = "6856".
C9_OneMatchStoredAsScalar ==
    \A k \in 1..Len(results) :
        /\ \A key \in DOMAIN TechnicalFields :
           \A re \in FieldRegex(TechnicalFields[key]) :
              (re.ok /\ re.groups = 1 /\ re.names[1] = "")
              => \A ms \in FieldMatches(TechnicalFields[key], re) :
                    (Len(ms) = 1 /\ group(document_text, ms[1], 1) # "")
                    => /\ key \in DOMAIN results[k].result.technical_params
                       /\ results[k].result.technical_params[key]
                              = Str(group(document_text, ms[1], 1))
        /\ (/\ patterns = SteelGradeSpec.patterns
            /\ CountLines(document_text, "stali marki 6856") = 1)
           => results[k].result.technical_params = [steel_grade |-> Str("6856")]

\* C9, witness: the steel grade example has been extracted
C9_SteelGradeExtracted ==
    /\ patterns = SteelGradeSpec.patterns
    /\ document_text = "04.2025\nstali marki 6856"
    /\ Len(results) >= 1
    /\ results[1].result.technical_params = [steel_grade |-> Str("6856")]

\* C9 as stated: for a technical_params field whose pattern has one capture
\* group and matches the text exactly once, parse_document stores the
\* captured group text as a scalar string under that key.
C9_AnyOneGroupStoredAsScalar ==
    \A k \in 1..Len(results) : \A key \in DOMAIN TechnicalFields :
    \A re \in FieldRegex(TechnicalFields[key]) :
        (re.ok /\ re.groups = 1)
        => \A ms \in FieldMatches(TechnicalFields[key], re) :
              Len(ms) = 1
              => /\ key \in DOMAIN results[k].result.technical_params
                 /\ results[k].result.technical_params[key]
                        = Str(group(document_text, ms[1], 1))

\* the metadata fields of the pattern set, and those whose regex source does
\* not compile
MetadataFields == Get(patterns, "metadata", EmptyDict)
MalformedFields ==
    {key \in DOMAIN MetadataFields : ~re_compile(MetadataFields[key].pattern).ok}

\* the pattern set without the metadata field key
WithoutField(key) ==
    [patterns EXCEPT !["metadata"] =
        [f \in (DOMAIN MetadataFields) \ {key} |-> MetadataFields[f]]]

\* the lines of the markup, and the @REGEX directives among them whose
\* pattern does not compile
MarkupLines == split(markup_text, "\n")
MalformedDirectives ==
    {j \in 1..Len(MarkupLines) :
        /\ contains(MarkupLines[j], "{") /\ contains(MarkupLines[j], "}")
        /\ meta_line_parts(MarkupLines[j]).is_regex
        /\ ~re_compile(meta_line_parts(MarkupLines[j]).text_part).ok}

\* the markup without its line j
WithoutLine(j) ==
    join("\n", [k \in 1..(Len(MarkupLines) - 1) |->
                   IF k < j THEN MarkupLines[k] ELSE MarkupLines[k + 1]])

\* C10: when one field of a metadata group has a regex source that does not
\* compile, the field's key is absent from the result and every other field
\* of the group has the value it would have if the malformed field were not
\* in the specification; in RegexParser.extract_metadata and in the [META]
\* section of MarkupParser (first parse of the object).
C10_MalformedFieldOnlyMissing ==
    /\ \A k \in 1..Len(results) : \A key \in MalformedFields :
          /\ key \notin DOMAIN results[k].result.metadata
          /\ results[k].result.metadata
                 = parse_document(WithoutField(key), document_text).result.metadata
    /\ Len(returned) >= 1 =>
          \A j \in MalformedDirectives :
              /\ meta_line_parts(MarkupLines[j]).label_part
                     \notin DOMAIN returned[1].data.metadata
              /\ returned[1].data.metadata
                     = parse(new_extracted_data, WithoutLine(j), document_text).data.metadata

\* C10, witness: both parsers have run a group with a malformed field and
\* have stored the well-formed one
C10_OtherFieldStored ==
    /\ MalformedFields = {"number"}
    /\ MalformedDirectives = {2}
    /\ Len(results) >= 1 /\ Len(returned) >= 1
    /\ results[1].result.metadata = [grade |-> Str("marki x")]
    /\ returned[1].data.metadata = [grade |-> Str("marki x")]

\* ---------------------------------------------------------------------
\* MarkupParser._find_by_regex called directly on a parser that holds a
\* document

FindPatterns ==
    {"\\d+", "marki (\\w+)", "(\\d+", "marki \\w+\\Z", "(\\d+)\\.(\\d+)"}

FindLabels ==
    {"grade", "grade: 1", "grade: 2", "grade: 0", "grade: x", "grade: " \o SUPERSCRIPT_TWO}

InitFind ==
    /\ document_text \in Documents
    /\ find_call = None
    /\ MarkupIdle /\ RegexIdle /\ SubIdle /\ KVIdle /\ TableIdle /\ EnginesIdle
    /\ FrameIdle

\* self._find_by_regex(pattern, label_part, find_all): the object is not
\* changed, so one call is followed
FindByRegex ==
    /\ find_call = None
    /\ \E pattern \in FindPatterns, label_part \in FindLabels, find_all \in BOOLEAN :
          find_call' = [pattern |-> pattern, label_part |-> label_part,
                        find_all |-> find_all,
                        raised |-> find_by_regex_raises(pattern, label_part),
                        found |-> IF find_by_regex_raises(pattern, label_part)
                                  THEN <<>>
                                  ELSE find_by_regex(document_text, pattern,
                                                     label_part, find_all)]
    /\ UNCHANGED <<frameVars, engineVars, document_text, markupVars, regexVars, subVars, kvVars,
                   tableVars>>

NextFind == FindByRegex

SpecFind == InitFind /\ [][NextFind]_vars

\* C3: for every pattern, every label (plain `key` or `key: group`) and
\* every document, _find_by_regex called with find_all=False returns a list
\* of at most one value.
C3_FirstOnlyAtMostOne ==
    (find_call # None /\ ~find_call.find_all) => Len(find_call.found) <= 1

\* ---------------------------------------------------------------------
\* One section text split into subsections by the markup path and by the
\* JSON-pattern path

MaxSectionLines == 2

SectionLines == {"intro", "1.1 foo", "1.2 bar", "1.1 baz"}

SectionTexts == {join("\n", ls) : ls \in SeqsUpTo(SectionLines, MaxSectionLines)}

SubsectionPatterns == {"^(\\d\\.\\d)", "(\\d\\.\\d) (\\w+)", "(\\d\\.\\d) (\\w)", "(\\d\\.\\d"}

\* the section descriptor of the JSON path: the whole text is the section
SectionInfo ==
    [pattern |-> "^(.*)", flags |-> {"DOTALL"},
     extraction_method |-> "structured_subsections",
     subsection_pattern |-> subsection_pattern]

InitSub ==
    /\ section_text \in SectionTexts
    /\ subsection_pattern \in SubsectionPatterns
    /\ markup_subsections = None
    /\ json_section = None
    /\ document_text = ""
    /\ MarkupIdle /\ RegexIdle /\ FindIdle /\ KVIdle /\ TableIdle /\ EnginesIdle
    /\ FrameIdle

\* MarkupParser._extract_subsections(section_text, pattern)
ExtractSubsections ==
    /\ markup_subsections = None
    /\ markup_subsections' = extract_subsections(section_text, subsection_pattern)
    /\ UNCHANGED <<frameVars, engineVars, section_text, subsection_pattern, json_section,
                   document_text, markupVars, regexVars, findVars, kvVars, tableVars>>

\* the turn of the loop of RegexParser.extract_sections for the section
ExtractSections ==
    /\ json_section = None
    /\ json_section' = extract_section(section_text, SectionInfo)
    /\ UNCHANGED <<frameVars, engineVars, section_text, subsection_pattern, markup_subsections,
                   document_text, markupVars, regexVars, findVars, kvVars, tableVars>>

NextSub == ExtractSubsections \/ ExtractSections

SpecSub == InitSub /\ [][NextSub]_vars

\* the label matches of the markup path and of the JSON path in a text
MarkupLabelMatches(text) ==
    {re_finditer(re, text, Flags(FALSE, TRUE, FALSE)) :
        re \in {r \in {re_compile(subsection_pattern)} : r.ok}}
JsonLabelMatches(text) ==
    {re_finditer(re, text, Flags(FALSE, TRUE, TRUE)) :
        re \in {r \in {re_compile(subsection_pattern)} : r.ok}}

\* the markup path returned a dict; the JSON path stored a divided section
MarkupDivided == markup_subsections # None /\ ~markup_subsections.raised
JsonDivided ==
    /\ json_section # None /\ ~json_section.raised /\ json_section.found
    /\ json_section.value.kind = "section"

\* the offset where the body of match j ends by the boundary rule
BoundaryEnd(text, ms, j) == IF j < Len(ms) THEN ms[j + 1].s ELSE Len(text) + 1

\* body is, up to surrounding white space, a part of text that starts in
\* match j or after it and ends at the boundary of match j
EndsAtBoundary(body, text, ms, j) ==
    \E a \in ms[j].s..BoundaryEnd(text, ms, j) :
        body = strip(Slice(text, a, BoundaryEnd(text, ms, j)))

\* match j is the last one that carries its label
LastOfLabel(text, ms, j) ==
    \A k \in (j + 1)..Len(ms) : group(text, ms[k], 1) # group(text, ms[j], 1)

\* C4: for a section whose subsection pattern matches n labels in document
\* order, the body stored for label i ends exactly at the start offset of
\* label match i+1, and at the end of the section text for the last label,
\* in the markup path (_extract_subsections) and in the JSON-pattern path
\* (extract_sections); bodies are compared up to the white space the code
\* strips, and a label that recurs is judged by its last match.
C4_BodyEndsAtNextLabel ==
    /\ MarkupDivided =>
          \A ms \in MarkupLabelMatches(section_text) : \A j \in 1..Len(ms) :
              LastOfLabel(section_text, ms, j)
              => /\ group(section_text, ms[j], 1) \in DOMAIN markup_subsections.v
                 /\ EndsAtBoundary(markup_subsections.v[group(section_text, ms[j], 1)],
                                   section_text, ms, j)
    /\ JsonDivided =>
          \A text \in {json_section.value.full_text} :
          \A ms \in JsonLabelMatches(text) : \A j \in 1..Len(ms) :
              LastOfLabel(text, ms, j)
              => /\ strip(group(text, ms[j], 1)) \in DOMAIN json_section.value.subsections
                 /\ EndsAtBoundary(
                        json_section.value.subsections[strip(group(text, ms[j], 1))],
                        text, ms, j)

\* a text without its white space
squeeze(text) == join("", split_ws(text))

\* the label text of every match followed by the body stored under its label
RECURSIVE LabelsAndBodies(_, _, _, _, _)
LabelsAndBodies(text, ms, j, stored, body_group) ==
    IF j > Len(ms) THEN ""
    ELSE Slice(text, ms[j].s,
               IF body_group = 0 THEN ms[j].e ELSE ms[j].caps[body_group][1])
         \o Get(stored, strip(group(text, ms[j], 1)), "")
         \o LabelsAndBodies(text, ms, j + 1, stored, body_group)

\* C5: for every section text and subsection pattern (that matches at least
\* once), concatenating the label text and the extracted bodies in label
\* order reconstructs the section text up to white space, and no subsection
\* is dropped: there are as many bodies as matches; including when two
\* matches carry the same label or when text precedes the first label.
C5_BodiesReconstructSection ==
    /\ MarkupDivided =>
          \A ms \in MarkupLabelMatches(section_text) :
              Len(ms) > 0
              => /\ Cardinality(DOMAIN markup_subsections.v) = Len(ms)
                 /\ squeeze(LabelsAndBodies(section_text, ms, 1, markup_subsections.v, 0))
                        = squeeze(section_text)
    /\ JsonDivided =>
          \A text \in {json_section.value.full_text} :
          \A ms \in JsonLabelMatches(text) :
              Len(ms) > 0
              => /\ Cardinality(DOMAIN json_section.value.subsections) = Len(ms)
                 /\ squeeze(LabelsAndBodies(text, ms, 1,
                                            json_section.value.subsections, 2))
                        = squeeze(text)

\* ---------------------------------------------------------------------
\* The pairing loop of the key_value_table strategy, one turn at a time

MaxLines == 4

\* body lines: stripped and not empty; "Dlina" starts with CYR_DE as the
\* word it stands for starts with U+0414
BodyLines == {"Bec", "120", "Dlina", "N/A"}

InitKV ==
    /\ lines \in SeqsUpTo(BodyLines, MaxLines)
    /\ kv_i = 0
    /\ data = EmptyDict
    /\ visited = <<>>
    /\ document_text = ""
    /\ MarkupIdle /\ RegexIdle /\ FindIdle /\ SubIdle /\ TableIdle /\ EnginesIdle
    /\ FrameIdle

\* one turn of `while i < len(lines)`
KVStep ==
    /\ kv_i < Len(lines)
    /\ LET turn(st) == kv_i' = st.i /\ data' = st.data
       IN  turn(kv_step(lines, kv_i, data))
    /\ visited' = Append(visited, kv_i)
    /\ UNCHANGED <<frameVars, engineVars, lines, document_text, markupVars, regexVars, findVars,
                   subVars, tableVars>>

NextKV == KVStep

\* the loop runs on: nothing but its own condition stops it
SpecKV == InitKV /\ [][NextKV]_vars /\ WF_vars(KVStep)

\* the loop has left `while i < len(lines)`
KVDone == kv_i >= Len(lines)

\* at index v (0-based) there is a pair whose value is not rejected
WellFormedAt(v) ==
    /\ v + 1 < Len(lines)
    /\ At(lines[v + 2], 1) \notin {LATIN_N, CYR_DE}

\* the pairs stored at the first n visited indices, assigned in that order
RECURSIVE AssignedUpTo(_)
AssignedUpTo(n) ==
    IF n = 0 THEN EmptyDict
    ELSE IF WellFormedAt(visited[n])
    THEN Put(AssignedUpTo(n - 1), lines[visited[n] + 1], lines[visited[n] + 2])
    ELSE AssignedUpTo(n - 1)

\* C6 (as amended): for every list of non-empty body lines the pairing loop
\* terminates; the data map is the result of assigning, in the order the
\* loop visits them, lines[i] -> lines[i+1] for the visited indices i whose
\* lines[i+1] begins with neither LATIN_N nor CYR_DE, so that of two pairs
\* with the same key the later one remains; the index advances by 2 after a
\* stored pair and by 1 otherwise; for the lines Bec, 120, Dlina, N/A the
\* result is {Bec: 120}.
C6_PairingLoop ==
    /\ <>KVDone
    /\ [](data = AssignedUpTo(Len(visited)))
    /\ [][kv_i' = kv_i + (IF WellFormedAt(kv_i) THEN 2 ELSE 1)]_vars
    /\ []((lines = <<"Bec", "120", "Dlina", "N/A">> /\ KVDone)
          => data = [Bec |-> "120"])

\* C6, witness: the loop has finished a body in which a pair was stored and
\* a line was passed over
C6_LoopFinished ==
    /\ lines = <<"Bec", "120", "Dlina", "N/A">>
    /\ KVDone
    /\ visited = <<0, 2, 3>>
    /\ data = [Bec |-> "120"]

\* C6 as stated: when the loop has ended, the data map holds exactly the
\* pairs (lines[i], lines[i+1]) for the visited indices i whose lines[i+1]
\* begins with neither LATIN_N nor CYR_DE.
C6_DataHoldsEveryVisitedPair ==
    KVDone
    => {<<key, data[key]>> : key \in DOMAIN data}
           = {<<lines[visited[n] + 1], lines[visited[n] + 2]>> :
                 n \in {m \in 1..Len(visited) : WellFormedAt(visited[m])}}

\* the indices of the lines that were rejected as a value, and of the lines
\* that were stored as a key
RejectedAsValue ==
    {visited[n] + 1 : n \in {m \in 1..Len(visited) :
        visited[m] + 1 < Len(lines) /\ ~WellFormedAt(visited[m])}}
StoredAsKey == {visited[n] : n \in {m \in 1..Len(visited) : WellFormedAt(visited[m])}}

\* C7: skipping a malformed pair does not lose alignment: a line that was
\* rejected as a value (it begins with LATIN_N or CYR_DE) never appears as a
\* key in the data map; lines are told apart by their index, so that an
\* equal line elsewhere in the body does not count.
C7_RejectedValueNeverKey == RejectedAsValue \cap StoredAsKey = {}

\* ---------------------------------------------------------------------
\* RegexParser.extract_table with a descriptor of the structured strategy

MaxTokens == 3

\* "n.b." stands for the placeholder that starts with CYR_EN
RowTokens == {"0,42", "0,25", "Rekomend", "n.b.", "x1"}

RowTexts == {join(" ", ts) : ts \in SeqsUpTo(RowTokens, MaxTokens)}

StructuredTable ==
    [table_name |-> "t1", table_number |-> "1", extraction_method |-> "structured",
     structure |-> [elements |-> [pattern |-> "^(\\w+) "],
                    recommended |-> [pattern |-> "^rec (.*)"],
                    certificate |-> [pattern |-> "(\\d,\\d+)"],
                    espz |-> [pattern |-> "espz (.*)"]]]

InitTable ==
    /\ \E row_text \in RowTexts : document_text = "rec " \o row_text
    /\ table_info = StructuredTable
    /\ tables = <<>>
    /\ MarkupIdle /\ RegexIdle /\ FindIdle /\ SubIdle /\ KVIdle /\ EnginesIdle
    /\ FrameIdle

\* RegexParser.extract_table(text, table_info)
ExtractTable ==
    /\ Len(tables) < MaxCalls
    /\ tables' = Append(tables, extract_table(document_text, table_info))
    /\ UNCHANGED <<frameVars, engineVars, table_info, document_text, markupVars, regexVars,
                   findVars, subVars, kvVars>>

NextTable == ExtractTable

SpecTable == InitTable /\ [][NextTable]_vars

\* the rows of the descriptor and what the pattern of a row gives
StructureRows == {"recommended", "certificate", "espz"} \cap DOMAIN table_info.structure
RowResult(name) == {extract_with_pattern(document_text, table_info.structure[name])}

\* the indices of the tokens whose first character is a digit or CYR_EN
KeptIndices(tokens) ==
    {j \in 1..Len(tokens) : At(tokens[j], 1) \in DigitChars \cup {CYR_EN}}

\* the tokens at those indices, in order
KeptTokens(tokens) ==
    [k \in 1..Cardinality(KeptIndices(tokens)) |-> tokens[NthOf(KeptIndices(tokens), k)]]

\* C8: in the structured strategy the list stored for each row
\* (recommended, certificate, espz) is the subsequence, in order, of the
\* white-space separated tokens of the captured row text whose first
\* character is a digit or CYR_EN, the tokens unchanged; for the row text
\* `0,42 0,25 Rekomend` the row list is ["0,42", "0,25"].
C8_RowIsKeptTokens ==
    \A k \in 1..Len(tables) :
        /\ \A name \in StructureRows : \A result \in RowResult(name) :
              truthy(result)
              => /\ name \in DOMAIN tables[k].table.rows
                 /\ \A tokens \in {split_ws(py_str(result))} :
                       tables[k].table.rows[name] = KeptTokens(tokens)
        /\ document_text = "rec 0,42 0,25 Rekomend"
           => tables[k].table.rows["recommended"] = <<"0,42", "0,25">>

\* C8, witness: a row text with a label token and a placeholder token has
\* been filtered
C8_RowFiltered ==
    /\ document_text = "rec n.b. Rekomend 0,25"
    /\ Len(tables) >= 1
    /\ tables[1].table.rows["recommended"] = <<"n.b.", "0,25">>

\* ---------------------------------------------------------------------
\* SpecStrategies: extract_table under each of the eight strategies, on
\* texts where the table pattern matches and texts where it does not.

MaxBodyParts == 2

\* pieces of table bodies: a distance list, a minimum list, a block of
\* header and value lines, a row of tolerances, a reduction row, a pair, four
\* more lines
BodyParts == {"MM\n1,5 3", "min\n20", "h1\nh2\nh3\n1\n2", "90 +0,5 -1,0",
              "Diametr\n12 30", "Bec\n120", "a\nb\nc\nd"}

TableBodies == {join("\n", ps) : ps \in SeqsUpTo(BodyParts, MaxBodyParts)}

\* the table starts at a line "T" that opens the text
TablePattern == "^T\\n(.*)"

PatternStrategies ==
    {"simple", "structured_table_2", "key_value_table", "structured_table_4",
     "structured_table_5", "structured_table_6", "text_block"}

StrategyTables ==
    {[table_name |-> "t1", table_number |-> "2", description |-> "d",
      extraction_method |-> method, pattern |-> TablePattern, flags |-> {"DOTALL"}] :
        method \in PatternStrategies}
    \cup
    {[table_name |-> "t1", table_number |-> "2", description |-> "d",
      extraction_method |-> "structured",
      structure |-> [elements |-> [pattern |-> "^T\\n(\\w+)"],
                     recommended |-> [pattern |-> TablePattern, flags |-> {"DOTALL"}]]]}

InitStrategies ==
    /\ \E body \in TableBodies : document_text \in {body, "T\n" \o body}
    /\ table_info \in StrategyTables
    /\ tables = <<>>
    /\ MarkupIdle /\ RegexIdle /\ FindIdle /\ SubIdle /\ KVIdle /\ EnginesIdle
    /\ FrameIdle

SpecStrategies == InitStrategies /\ [][NextTable]_vars

\* the patterns a table descriptor searches the text with
TablePatterns(info) ==
    IF info.extraction_method = "structured"
    THEN {info.structure[part] : part \in DOMAIN info.structure}
    ELSE {[pattern |-> info.pattern, flags |-> info.flags]}

\* no pattern of the descriptor has a match in the text
FindsNoMatch(info, text) ==
    \A pattern_info \in TablePatterns(info) :
        \A re \in {re_compile(pattern_info.pattern)} :
            /\ re.ok
            /\ ~re_search(re, text, flags_of(Get(pattern_info, "flags", {}))).ok

\* C11: under each of the eight strategies, when no pattern of the table
\* finds a match, extract_table returns without raising a table that carries
\* the declared table_name, table_number and description and whose columns,
\* rows and data are empty.
C11_NoMatchGivesEmptyTable ==
    \A k \in 1..Len(tables) :
        FindsNoMatch(table_info, document_text)
            => /\ ~tables[k].raised
               /\ tables[k].table.table_name = table_info.table_name
               /\ tables[k].table.table_number = table_info.table_number
               /\ tables[k].table.description = table_info.description
               /\ tables[k].table.columns = <<>>
               /\ DOMAIN tables[k].table.rows = {}
               /\ DOMAIN tables[k].table.data = {}

\* a hardenability table has been asked of a text that has no table line
C11_NoMatchReturned ==
    /\ Len(tables) > 0
    /\ table_info.extraction_method = "structured_table_5"
    /\ document_text = "MM\n1,5 3"
    /\ FindsNoMatch(table_info, document_text)
    /\ tables[1].table.table_name = "t1"

\* C12: a pattern error inside a subsection pass never aborts the run: when
\* the body of a section matched and its subsection pattern does not compile,
\* or matches without the two expected groups, the pass still returns, in the
\* JSON path and in the markup path.
C12_SubsectionErrorNeverAborts ==
    /\ markup_subsections # None => ~markup_subsections.raised
    /\ (json_section # None /\ section_text # "") => ~json_section.raised

\* ---------------------------------------------------------------------
\* SpecValidate: the fields of a specification extracted by RegexParser and
\* validated by LLMRegexAnalyzer over the same text.

\* the field groups of a specification in the form validate_with_regex reads
RegexPatterns(ps) ==
    [section_name \in DOMAIN ps \ {"tables"} |-> [regex_patterns |-> ps[section_name]]]

\* LLMRegexAnalyzer.validate_with_regex(text, regex_patterns)
ValidateWithRegex ==
    /\ validation_results = None
    /\ validation_results' = validate_with_regex(document_text, RegexPatterns(patterns))
    /\ UNCHANGED <<frameVars, engineVars, patterns, results, document_text, markupVars,
                   findVars, subVars, kvVars, tableVars>>

NextValidate == ParseDocument \/ ValidateWithRegex

SpecValidate == Init /\ [][NextValidate]_vars

\* the fields of a group whose pattern does not compile
InvalidFields(ps, group_name) ==
    IF group_name \in DOMAIN ps
    THEN {f \in DOMAIN ps[group_name] : ~re_compile(ps[group_name][f].pattern).ok}
    ELSE {}

\* C13: whenever the pattern of a field fails to compile, the final result
\* has an explicit error entry for that field, next to the values of the
\* fields that succeeded: in what parse_document returns and in what
\* validate_with_regex returns.
C13_InvalidPatternHasErrorEntry ==
    \A group_name \in {"metadata", "technical_params"} :
        \A f \in InvalidFields(patterns, group_name) :
            /\ \A k \in 1..Len(results) : f \in DOMAIN results[k].result[group_name]
            /\ validation_results # None
                  => /\ f \in DOMAIN validation_results[group_name]
                     /\ ~validation_results[group_name][f].pattern_valid

\* the half of C13 that holds: validate_with_regex reports every field whose
\* pattern does not compile as invalid and every other field with its matches
ValidationReportsInvalid ==
    validation_results # None =>
        \A group_name \in DOMAIN patterns \ {"tables"} :
            \A f \in DOMAIN patterns[group_name] :
                /\ f \in DOMAIN validation_results[group_name]
                /\ validation_results[group_name][f].pattern_valid
                      = re_compile(patterns[group_name][f].pattern).ok

\* ---------------------------------------------------------------------
\* Properties of _find_by_regex with find_all = True

\* the group number a label asks for: 0 when it names none
LabelGroup(label_part) ==
    IF contains(label_part, ":") /\ isdigit(strip(split1(label_part, ":")[2]))
    THEN int_of(strip(split1(label_part, ":")[2]))
    ELSE 0

\* the value a match m of text gives under the label
LabelValue(label_part, text, m) ==
    IF contains(label_part, ":") THEN match_value(text, m, LabelGroup(label_part))
    ELSE group(text, m, 0)

\* the values of the matches of the whole document, in document order
FullTextValues(call, re) ==
    LET values(ms) ==
            [j \in 1..Len(ms) |-> LabelValue(call.label_part, document_text, ms[j])]
    IN  values(re_finditer(re, document_text, AllFlags))

\* the value of the first match of every line that has a match when it is
\* searched on its own, in the order of the lines
LineValues(call, re) ==
    LET hits == SelectSeq(document_lines(document_text),
                          LAMBDA l : re_search(re, l, AllFlags).ok)
    IN  [j \in 1..Len(hits) |->
            LabelValue(call.label_part, hits[j], re_search(re, hits[j], AllFlags))]

\* C14 (as stated): with find_all = True, when the search of the whole
\* document finds a match the returned list is the matches of the whole
\* document in document order, and when it finds none the returned list is
\* empty.
C14_NoFullMatchGivesEmpty ==
    (find_call # None /\ find_call.find_all /\ ~find_call.raised) =>
        \A re \in {re_compile(find_call.pattern)} :
            re.ok => \A full \in {FullTextValues(find_call, re)} :
                        /\ Len(full) > 0 => find_call.found = full
                        /\ Len(full) = 0 => find_call.found = <<>>

\* C14 (amended): with find_all = True, when the search of the whole
\* document finds a match the returned list is the matches of the whole
\* document in document order and no line is searched; when it finds none,
\* the returned list is the first match of every line that matches on its
\* own, in line order; it is empty when no line matches on its own.
C14_FallbackOnlyWhenNoFullMatch ==
    (find_call # None /\ find_call.find_all /\ ~find_call.raised) =>
        \A re \in {re_compile(find_call.pattern)} :
            re.ok => \A full \in {FullTextValues(find_call, re)} :
                        /\ Len(full) > 0 => find_call.found = full
                        /\ Len(full) = 0 => find_call.found = LineValues(find_call, re)

\* the whole document has no match, its first line matches on its own: the
\* list is the match of that line
C14_LineMatchReturned ==
    /\ find_call # None /\ find_call.find_all
    /\ find_call.pattern = "marki \\w+\\Z" /\ find_call.label_part = "grade"
    /\ document_text = "stali marki 6856\n04.2025"
    /\ find_call.found = <<"marki 6856">>

\* C15: for every technical-parameter field the stored value is the single
\* first match in document order, also when the pattern matches several
\* times: never a list, in what parse_document returns and in what
\* MarkupParser.parse returns.
C15_TechnicalParamNeverList ==
    /\ \A k \in 1..Len(results) :
          \A f \in DOMAIN results[k].result.technical_params :
              results[k].result.technical_params[f].kind # "list"
    /\ \A k \in 1..Len(returned) :
          \A f \in DOMAIN returned[k].data.technical_params :
              returned[k].data.technical_params[f].kind # "list"

\* the markup half of C15: no technical parameter of MarkupParser.parse is a
\* list
MarkupParamNeverList ==
    \A k \in 1..Len(returned) :
        \A f \in DOMAIN returned[k].data.technical_params :
            returned[k].data.technical_params[f].kind # "list"

\* ---------------------------------------------------------------------
\* SpecMarkup: MarkupParser.parse over markups whose lines give one key
\* several values, and over markups with literal lines

AddresseeMarkup ==
    MarkupOf("[META]", <<"@REGEX marki (\\w+) { addressee }",
                         "@REGEX marki (\\w+) { grade: 1 }">>)

LiteralMetaMarkup == MarkupOf("[META]", <<"marki { kind: steel }">>)

LiteralParamsMarkup == MarkupOf("[PARAMS]", <<"stali { form: bar }">>)

RepeatedKeyMarkup == MarkupOf("[META]", <<"marki { word }", "stali { word }">>)

\* a section between the line that starts with "stali" and the line that
\* starts with "04", divided at the lines that start with a number like 1.1
SectionMarkup ==
    MarkupOf("[SECTION s]", <<"@START: stali", "@END: 04", "@SUBSECTIONS: ^(\\d\\.\\d)">>)

\* the same section as a pattern set
SectionPatterns ==
    [sections |-> [s |-> [pattern |-> "stali (.*)",
                          extraction_method |-> "structured_subsections",
                          subsection_pattern |-> "(\\d\\.\\d) (\\w+)"]]]

MarkupSpecifications ==
    {[markup_text |-> AddresseeMarkup, patterns |-> EmptyDict],
     [markup_text |-> LiteralMetaMarkup, patterns |-> EmptyDict],
     [markup_text |-> LiteralParamsMarkup, patterns |-> EmptyDict],
     [markup_text |-> RepeatedKeyMarkup, patterns |-> EmptyDict],
     [markup_text |-> SectionMarkup, patterns |-> SectionPatterns]}

InitMarkup ==
    /\ \E sp \in MarkupSpecifications :
          /\ markup_text = sp.markup_text
          /\ patterns = sp.patterns
    /\ document_text \in Documents
    /\ extracted_data = new_extracted_data
    /\ returned = <<>>
    /\ results = <<>>
    /\ validation_results = None
    /\ FindIdle /\ SubIdle /\ KVIdle /\ TableIdle /\ EnginesIdle
    /\ FrameIdle

NextMarkup == Parse \/ ParseDocument

SpecMarkup == InitMarkup /\ [][NextMarkup]_vars

\* the directive lines of a markup that is one section of the given kind
SectionContent(kind) ==
    IF MarkupLines[1] = kind
    THEN SelectSeq(SubSeq(MarkupLines, 2, Len(MarkupLines) - 1),
                   LAMBDA l : contains(l, "{") /\ contains(l, "}"))
    ELSE <<>>

\* the key a label names: the label, or its part before the colon
LabelKey(label_part) ==
    IF contains(label_part, ":") THEN strip(split1(label_part, ":")[1]) ELSE label_part

\* the values that arrive for key from line i of the [META] content on, in
\* arrival order
RECURSIVE MetaArrivals(_, _, _)
MetaArrivals(content, i, key) ==
    LET of(parts) ==
            IF LabelKey(parts.label_part) = key
            THEN SelectSeq(meta_line_values(document_text, parts).values, truthy)
            ELSE <<>>
    IN  IF i > Len(content) THEN <<>>
        ELSE of(meta_line_parts(content[i])) \o MetaArrivals(content, i + 1, key)

\* the keys the labels of the [META] content name
MetaKeys ==
    {LabelKey(meta_line_parts(SectionContent("[META]")[j]).label_part) :
        j \in 1..Len(SectionContent("[META]"))}

\* C16: in the [META] group, when a second value arrives for a key the value
\* of the key is the list of every value received, in arrival order, for a
\* plain label and for a `key: group` label (first parse of the object).
C16_RepeatedKeyHoldsEveryValue ==
    Len(returned) >= 1 =>
        \A key \in MetaKeys :
            \A arrivals \in {MetaArrivals(SectionContent("[META]"), 1, key)} :
                Len(arrivals) >= 2
                    => /\ key \in DOMAIN returned[1].data.metadata
                       /\ returned[1].data.metadata[key] = List(arrivals)

\* the half of C16 that holds: a key with a plain label holds every value
PlainKeyHoldsEveryValue ==
    Len(returned) >= 1 =>
        \A j \in 1..Len(SectionContent("[META]")) :
            \A key \in {meta_line_parts(SectionContent("[META]")[j]).label_part} :
                \A arrivals \in {MetaArrivals(SectionContent("[META]"), 1, key)} :
                    (~contains(key, ":") /\ Len(arrivals) >= 2)
                        => returned[1].data.metadata[key] = List(arrivals)

\* the value written after the colon of a label `key: v`
LabelWrittenValue(label_part) == strip(split1(label_part, ":")[2])

\* C19: for a literal line `text { key: v }` of the [META] or [PARAMS] group
\* whose text is found in the document, the value stored under key is the
\* value v written after the colon (first parse of the object).
C19_LiteralLineStoresWrittenValue ==
    Len(returned) >= 1 =>
        \A section \in {<<"[META]", "metadata">>, <<"[PARAMS]", "technical_params">>} :
            \A j \in 1..Len(SectionContent(section[1])) :
                \A parts \in {meta_line_parts(SectionContent(section[1])[j])} :
                    (/\ ~parts.is_regex
                     /\ contains(parts.label_part, ":")
                     /\ truthy(find_in_document(document_text, parts.text_part)))
                        => /\ LabelKey(parts.label_part) \in DOMAIN returned[1].data[section[2]]
                           /\ returned[1].data[section[2]][LabelKey(parts.label_part)]
                                  = Str(LabelWrittenValue(parts.label_part))

\* C17: when the body of a section matches and no subsection is found, the
\* result of the section is the plain body text, with no subsections key: no
\* stored section carries an empty subsections map, in what parse_document
\* returns and in what MarkupParser.parse returns.
C17_NoSubsectionGivesPlainText ==
    /\ \A k \in 1..Len(results) :
          \A name \in DOMAIN results[k].result.sections :
              \A v \in {results[k].result.sections[name]} :
                  v.kind = "section" => DOMAIN v.subsections # {}
    /\ \A k \in 1..Len(returned) :
          \A name \in DOMAIN returned[k].data.sections :
              \A v \in {returned[k].data.sections[name]} :
                  "subsections" \in DOMAIN v => DOMAIN v.subsections # {}

\* the JSON half of C17: a section without subsections is the body text
JsonNoSubsectionGivesPlainText ==
    \A k \in 1..Len(results) :
        \A name \in DOMAIN results[k].result.sections :
            \A v \in {results[k].result.sections[name]} :
                /\ v.kind = "section" => DOMAIN v.subsections # {}
                /\ v.kind # "section" => v = Str("marki 6856")

\* ---------------------------------------------------------------------
\* Properties of _find_by_regex with a label `key: i`

\* the value the selection rule gives for a match: group i when i is a
\* number from 1 to the number of groups, else group 1 when the pattern has
\* a group, else the whole match
GroupSelected(re, label_part) ==
    LET of(written) ==
            IF isdecimal(written) /\ int_of(written) >= 1 /\ int_of(written) <= re.groups
            THEN int_of(written)
            ELSE IF re.groups >= 1 THEN 1 ELSE 0
    IN  of(strip(split1(label_part, ":")[2]))

\* C18: for a regex line with the label `key: i`, every match contributes
\* group i when 1 <= i <= number of groups, else group 1 when the pattern
\* has a group, else the whole match; no value of i causes an error.
C18_GroupSelectionNeverFails ==
    (find_call # None /\ contains(find_call.label_part, ":")) =>
        /\ ~find_call.raised
        /\ \A re \in {re_compile(find_call.pattern)} :
              re.ok =>
                  \A ms \in {re_finditer(re, document_text, AllFlags)} :
                      Len(ms) > 0 =>
                          find_call.found =
                              [j \in 1..Len(ms) |->
                                  group(document_text, ms[j],
                                        GroupSelected(re, find_call.label_part))]

\* the part of C18 that holds: when the call returns, every match
\* contributes the group the rule names
ReturnedGroupSelection ==
    (find_call # None /\ contains(find_call.label_part, ":") /\ ~find_call.raised) =>
        \A re \in {re_compile(find_call.pattern)} :
            re.ok =>
                \A ms \in {re_finditer(re, document_text, AllFlags)} :
                    Len(ms) > 0 =>
                        find_call.found =
                            [j \in 1..Len(ms) |->
                                group(document_text, ms[j],
                                      GroupSelected(re, find_call.label_part))]

\* ---------------------------------------------------------------------
\* SpecTwo: two parser objects, each constructed over its own specification
\* and its own text, whose extraction steps interleave. A step of a
\* MarkupParser is the turn of the loop of parse() for one section; a step of
\* a RegexParser is one of the four extract_ calls of parse_document().

Instances == {1, 2}

TwoDocuments == {"stali marki 6856\nmarki x", "04.2025\nstali marki 6856"}

GradeMarkup ==
    join("\n", <<"[META]", "@REGEX marki (\\w+) { grade }", "[END]",
                 "[PARAMS]", "@REGEX stali marki (\\d+) { steel_grade: 1 }", "[END]">>)

NumberMarkup ==
    join("\n", <<"[META]", "@REGEX \\d+ { number }", "[END]",
                 "[SECTION s]", "@START: stali", "@END: 04", "[END]">>)

GradePatterns ==
    [metadata |-> [grade |-> [pattern |-> "marki (\\w+)"]],
     technical_params |-> [steel_grade |-> [pattern |-> "stali marki (\\d+)"]]]

NumberPatterns ==
    [metadata |-> [number |-> [pattern |-> "\\d+"]],
     tables |-> <<[table_name |-> "t1", extraction_method |-> "text_block",
                   pattern |-> "stali (.*)"]>>]

EngineSpecifications ==
    {[kind |-> "markup", specification |-> GradeMarkup],
     [kind |-> "markup", specification |-> NumberMarkup],
     [kind |-> "regex", specification |-> GradePatterns],
     [kind |-> "regex", specification |-> NumberPatterns]}

\* a result dict that every object would write to
result_shared(inst) == 1

\* the result dict of an object: __init__ of MarkupParser and parse_document
\* of RegexParser make a new dict for every object and every call
result_of(inst) == inst

\* the dict as it is made by the objects, of these kinds, that name it
new_result(kinds) == IF "markup" \in kinds THEN new_extracted_data ELSE EmptyDict

\* the number of steps of an object
steps_of(e) ==
    IF e.kind = "markup" THEN Len(split_into_sections(e.specification)) ELSE 4

InitTwo ==
    /\ engines \in [Instances ->
                      {[kind |-> sp.kind, specification |-> sp.specification,
                        document_text |-> text, pc |-> 1, raised |-> FALSE] :
                          sp \in EngineSpecifications, text \in TwoDocuments}]
    /\ heap = [object \in {result_of(inst) : inst \in Instances} |->
                  new_result({engines[inst].kind :
                                  inst \in {i \in Instances : result_of(i) = object}})]
    /\ markup_text = "" /\ document_text = ""
    /\ extracted_data = new_extracted_data /\ returned = <<>>
    /\ RegexIdle /\ FindIdle /\ SubIdle /\ KVIdle /\ TableIdle /\ FrameIdle

\* the turn of the loop of MarkupParser.parse for the next section
MarkupStep(inst) ==
    /\ inst \in DOMAIN engines
    /\ engines[inst].kind = "markup"
    /\ engines[inst].pc <= steps_of(engines[inst]) /\ ~engines[inst].raised
    /\ LET e == engines[inst]
           turn(section, r) ==
               /\ heap' = [heap EXCEPT ![result_of(inst)] = r.data]
               /\ engines' = [engines EXCEPT ![inst].pc = @ + 1,
                                             ![inst].raised = r.raised]
           one(section) ==
               turn(section,
                    parse_one([raised |-> FALSE, data |-> heap[result_of(inst)]],
                              e.document_text, section[1], section[2]))
       IN  one(split_into_sections(e.specification)[e.pc])
    /\ UNCHANGED <<frameVars, document_text, markupVars, regexVars, findVars, subVars,
                   kvVars, tableVars>>

\* the next value of the dict that RegexParser.parse_document builds
regex_step(e, result) ==
    LET sections(r) == [raised |-> r.raised, data |-> Put(result, "sections", r.sections)]
        tables_(r) == [raised |-> r.raised, data |-> Put(result, "tables", r.tables)]
    IN  CASE e.pc = 1 ->
                 [raised |-> FALSE,
                  data |-> Put(result, "metadata",
                               extract_metadata(e.specification, e.document_text))]
          [] e.pc = 2 ->
                 [raised |-> FALSE,
                  data |-> Put(result, "technical_params",
                               extract_technical_params(e.specification, e.document_text))]
          [] e.pc = 3 -> sections(extract_sections(e.specification, e.document_text))
          [] OTHER -> tables_(extract_tables(e.specification, e.document_text))

\* the next extract_ call of RegexParser.parse_document
RegexStep(inst) ==
    /\ inst \in DOMAIN engines
    /\ engines[inst].kind = "regex"
    /\ engines[inst].pc <= steps_of(engines[inst]) /\ ~engines[inst].raised
    /\ LET turn(r) ==
               /\ heap' = [heap EXCEPT ![result_of(inst)] = r.data]
               /\ engines' = [engines EXCEPT ![inst].pc = @ + 1,
                                             ![inst].raised = r.raised]
       IN  turn(regex_step(engines[inst], heap[result_of(inst)]))
    /\ UNCHANGED <<frameVars, document_text, markupVars, regexVars, findVars, subVars,
                   kvVars, tableVars>>

NextTwo == \E inst \in Instances : MarkupStep(inst) \/ RegexStep(inst)

SpecTwo == InitTwo /\ [][NextTwo]_vars

\* the object has made its last step
Finished(inst) == engines[inst].pc > steps_of(engines[inst]) \/ engines[inst].raised

\* what the object returns when it runs alone: [raised, result]
Alone(e) ==
    IF e.kind = "markup"
    THEN [raised |-> parse(new_extracted_data, e.specification, e.document_text).raised,
          result |-> parse(new_extracted_data, e.specification, e.document_text).data]
    ELSE parse_document(e.specification, e.document_text)

\* C20: two objects that run over independent specifications and texts
\* share no mutable state: under every interleaving of their steps, the
\* result of an object that has finished is the result it gives when it runs
\* alone.
C20_InterleavedEqualsAlone ==
    \A inst \in DOMAIN engines :
        Finished(inst) =>
            \A alone \in {Alone(engines[inst])} :
                /\ engines[inst].raised = alone.raised
                /\ ~alone.raised => heap[result_of(inst)] = alone.result

\* both objects have finished, a MarkupParser and a RegexParser over
\* different texts, with the results each gives alone
C20_BothFinished ==
    /\ DOMAIN engines = Instances
    /\ Finished(1) /\ Finished(2)
    /\ engines[1].kind = "markup" /\ engines[1].specification = GradeMarkup
    /\ engines[2].kind = "regex" /\ engines[2].specification = NumberPatterns
    /\ engines[1].document_text # engines[2].document_text
    /\ heap[result_of(1)].metadata = [grade |-> Str("marki 6856")]
    /\ DOMAIN heap[result_of(2)].metadata = {"number"}

\* ---------------------------------------------------------------------
\* The single-pattern strategies, seen from the block their pattern captures

\* what extract_with_pattern gives for the pattern of the table
CapturedBlock == extract_with_pattern(document_text, table_pattern_info(table_info))

\* the lines of a captured block
BlockLines(block) == split(strip(block), "\n")

\* the stripped lines from position from on, two by two
PairsFrom(ls, from) ==
    [j \in 1..((Len(ls) - from + 1) \div 2) |->
        <<strip(ls[from + 2 * j - 2]), strip(ls[from + 2 * j - 1])>>]

\* what structured_table_2 is to give for a block of at least 6 lines
FixedRowSplit(t, ls) ==
    /\ ~t.raised
    /\ {"headers", "values"} \subseteq DOMAIN t.table
    /\ t.table.headers = <<strip(ls[1]), strip(ls[2]), strip(ls[3])>>
    /\ t.table.values = PairsFrom(ls, 4)

\* what structured_table_2 is to give for a block of fewer than 6 lines
FixedRowRaw(t, block) ==
    /\ ~t.raised
    /\ "raw_text" \in DOMAIN t.table
    /\ t.table.raw_text = block
    /\ DOMAIN t.table \cap {"headers", "values"} = {}

\* C21: in structured_table_2, for a captured block of n lines: when
\* n >= 6 the extraction returns without error, headers are the first 3
\* lines and values are all the remaining lines in consecutive pairs; when
\* n < 6 the whole block is kept as raw_text and there are no headers and no
\* values.
C21_FixedRowHeadersAndPairs ==
    \A k \in 1..Len(tables) :
        table_info.extraction_method = "structured_table_2" =>
            \A block \in {CapturedBlock} :
                (truthy(block) /\ block.kind = "str") =>
                    \A ls \in {BlockLines(block.v)} :
                        IF Len(ls) >= 6 THEN FixedRowSplit(tables[k], ls)
                        ELSE FixedRowRaw(tables[k], block.v)

\* the same for the blocks of exactly 9 lines and of fewer than 6 lines
FixedRowNineOrShort ==
    \A k \in 1..Len(tables) :
        table_info.extraction_method = "structured_table_2" =>
            \A block \in {CapturedBlock} :
                (truthy(block) /\ block.kind = "str") =>
                    \A ls \in {BlockLines(block.v)} :
                        /\ Len(ls) = 9 => FixedRowSplit(tables[k], ls)
                        /\ Len(ls) < 6 => FixedRowRaw(tables[k], block.v)

\* a block of 9 lines has been split
FixedRowNineSplit ==
    /\ Len(tables) >= 1
    /\ table_info.extraction_method = "structured_table_2"
    /\ document_text = "T\nh1\nh2\nh3\n1\n2\na\nb\nc\nd"
    /\ tables[1].table.values = <<<<"1", "2">>, <<"a", "b">>, <<"c", "d">>>>

\* ---------------------------------------------------------------------
\* SpecTable5: the loop of structured_table_5 over the lines of a captured
\* block, turn by turn

\* lines of a hardenability table: the markers, the unit header, the title,
\* two data lines
Table5Lines == {"MM", "min", "max", "HRC", HardenabilityBand \o " 5", "1,5 3", "x 20"}

\* the blocks the loops are run on: result.strip().split('\n')
BlocksOf(line_set) ==
    {BlockLines(join("\n", ps)) : ps \in SeqsUpTo(line_set, MaxLines) \ {<<>>}}

InitTable5 ==
    /\ frame \in {[loop |-> "table_5", lines |-> ls, i |-> 0, current_list |-> "",
                   lists |-> [distances_mm |-> <<>>, min_hrc |-> <<>>, max_hrc |-> <<>>]] :
                     ls \in BlocksOf(Table5Lines)}
    /\ document_text = ""
    /\ MarkupIdle /\ RegexIdle /\ FindIdle /\ SubIdle /\ KVIdle /\ TableIdle /\ EnginesIdle

\* one turn of `for line in lines`
Table5Step ==
    /\ frame.loop = "table_5"
    /\ frame.i < Len(frame.lines)
    /\ LET turn(st) ==
               frame' = [frame EXCEPT !.i = @ + 1, !.current_list = st.current_list,
                                      !.lists = st.lists]
       IN  turn(table_5_step(frame.current_list, frame.lists,
                             strip(frame.lines[frame.i + 1])))
    /\ UNCHANGED <<engineVars, document_text, markupVars, regexVars, findVars, subVars,
                   kvVars, tableVars>>

NextTable5 == Table5Step

SpecTable5 == InitTable5 /\ [][NextTable5]_vars

\* the list a marker line makes active
MarkerList == [MM |-> "distances_mm", min |-> "min_hrc", max |-> "max_hrc"]

\* the lines 1..n that are marker lines
MarkerLines(ls, n) == {j \in 1..n : strip(ls[j]) \in DOMAIN MarkerList}

\* the list that is active after the lines 1..n: that of the last marker line
ActiveAfter(ls, n) ==
    IF MarkerLines(ls, n) = {} THEN ""
    ELSE MarkerList[strip(ls[MaxOf(MarkerLines(ls, n))])]

\* line j is a data line: no marker, not the unit header, not the title
Table5DataLine(ls, j) ==
    /\ strip(ls[j]) \notin DOMAIN MarkerList \cup {"HRC"}
    /\ ~contains(ls[j], HardenabilityBand)

\* the numeric tokens of the data lines among 1..n at which the list key is
\* active, in document order
RECURSIVE TokensFor(_, _, _)
TokensFor(ls, n, key) ==
    IF n = 0 THEN <<>>
    ELSE TokensFor(ls, n - 1, key)
         \o (IF Table5DataLine(ls, n) /\ ActiveAfter(ls, n - 1) = key
             THEN SelectSeq(split_ws(ls[n]), is_number_token) ELSE <<>>)

\* C22: in structured_table_5 the active list is none at the start, becomes
\* distances on a line MM, min on min, max on max, and is left as it is by
\* HRC and by the title line; every numeric token of a data line is appended
\* to exactly the list active at that line, in document order, and the
\* numeric tokens seen before the first marker line are in no list.
C22_ActiveListReceivesTokens ==
    frame.loop = "table_5" =>
        /\ frame.current_list = ActiveAfter(frame.lines, frame.i)
        /\ \A key \in DOMAIN frame.lists :
               frame.lists[key] = TokensFor(frame.lines, frame.i, key)

\* the loop has ended on a block with tokens before the first marker, a unit
\* header after the marker and a data line after that
C22_TokensAfterUnitHeader ==
    /\ frame.loop = "table_5"
    /\ frame.lines = <<"x 20", "MM", "HRC", "1,5 3">>
    /\ frame.i = 4
    /\ frame.lists.distances_mm = <<"1,5", "3">>
    /\ frame.lists.min_hrc = <<>>

\* ---------------------------------------------------------------------
\* SpecTable4: the loop of structured_table_4 over the lines of a captured
\* block, turn by turn

\* lines of a table of diameters: a header, a row of tolerances, a bare
\* number, a line of three words, a blank line, a short number line
Table4Lines == {"d h", "90 +0,5 -1,0", "85", "12 x 3", "", "1,5"}

InitTable4 ==
    /\ frame \in {[loop |-> "table_4", lines |-> ls, i |-> 0, data_started |-> FALSE,
                   header_lines |-> <<>>, rows |-> <<>>] :
                     ls \in BlocksOf(Table4Lines)}
    /\ document_text = ""
    /\ MarkupIdle /\ RegexIdle /\ FindIdle /\ SubIdle /\ KVIdle /\ TableIdle /\ EnginesIdle

\* one turn of `for line in lines`
Table4Step ==
    /\ frame.loop = "table_4"
    /\ frame.i < Len(frame.lines)
    /\ LET turn(st) ==
               frame' = [frame EXCEPT !.i = @ + 1, !.data_started = st.data_started,
                                      !.header_lines = st.header_lines,
                                      !.rows = st.rows]
       IN  turn(table_4_step(frame.data_started, frame.header_lines, frame.rows,
                             strip(frame.lines[frame.i + 1])))
    /\ UNCHANGED <<engineVars, document_text, markupVars, regexVars, findVars, subVars,
                   kvVars, tableVars>>

NextTable4 == Table4Step

SpecTable4 == InitTable4 /\ [][NextTable4]_vars

\* a line of digits, signs, points, commas and spaces only, with a digit
PurelyNumeric(line0) ==
    /\ \A k \in 1..Len(line0) : At(line0, k) \in DigitChars \cup {"+", "-", ",", ".", " "}
    /\ \E k \in 1..Len(line0) : At(line0, k) \in DigitChars

\* the first purely numeric line among the lines 1..n; n + 1 when there is
\* none
FirstDataLine(ls, n) ==
    MinOf({j \in 1..n : PurelyNumeric(strip(ls[j]))} \cup {n + 1})

\* the stripped non-empty lines among the lines 1..n, in order
RECURSIVE NonEmptyLines(_, _)
NonEmptyLines(ls, n) ==
    IF n = 0 THEN <<>>
    ELSE NonEmptyLines(ls, n - 1) \o (IF strip(ls[n]) = "" THEN <<>> ELSE <<strip(ls[n])>>)

Table6Lines == {"Diametr prokata", "12 30", "5", "x 7,5 y", ";", "Stepen 3"}

InitTable6 ==
    /\ frame \in {[loop |-> "table_6", lines |-> ls, i |-> 0, current_row |-> <<>>,
                   data |-> <<>>] : ls \in BlocksOf(Table6Lines)}
    /\ document_text = ""
    /\ MarkupIdle /\ RegexIdle /\ FindIdle /\ SubIdle /\ KVIdle /\ TableIdle /\ EnginesIdle

\* one turn of `for line in lines`
Table6Step ==
    /\ frame.loop = "table_6"
    /\ frame.i < Len(frame.lines)
    /\ LET turn(st) ==
               frame' = [frame EXCEPT !.i = @ + 1, !.current_row = st.current_row,
                                      !.data = st.data]
       IN  turn(table_6_step(frame.current_row, frame.data,
                             strip(frame.lines[frame.i + 1])))
    /\ UNCHANGED <<engineVars, document_text, markupVars, regexVars, findVars, subVars,
                   kvVars, tableVars>>

NextTable6 == Table6Step

SpecTable6 == InitTable6 /\ [][NextTable6]_vars

\* the line is skipped as a header line
Table6HeaderLine(line0) == \E word \in Table6HeaderWords : contains(line0, word)

\* t1..tk: the numeric tokens of the lines 1..n that are not skipped as
\* header lines, in document order
RECURSIVE PairedTokens(_, _)
PairedTokens(ls, n) ==
    IF n = 0 THEN <<>>
    ELSE PairedTokens(ls, n - 1)
         \o (IF Table6HeaderLine(ls[n]) THEN <<>>
             ELSE SelectSeq(split_ws(ls[n]), is_number_token))

\* C24: in structured_table_6, t1..tk being the numeric tokens, in document
\* order, of the body lines that are not skipped as header lines, the output
\* is exactly floor(k/2) records, record j being {diameter_mm: t(2j-1),
\* compression_degree: t(2j)}; the pairing carries over the line boundaries
\* and a trailing unpaired token is dropped.
C24_TokensPairedAcrossLines ==
    frame.loop = "table_6" =>
        \A t \in {PairedTokens(frame.lines, frame.i)} :
            frame.data = [j \in 1..(Len(t) \div 2) |->
                             [diameter_mm |-> t[2 * j - 1],
                              compression_degree |-> t[2 * j]]]

\* the loop has ended on a block whose second record is made of the tokens
\* of two lines and whose last token has no partner
C24_PairOverTwoLines ==
    /\ frame.loop = "table_6"
    /\ frame.lines = <<"12 30", "5", "x 7,5 y", "5">>
    /\ frame.i = 4
    /\ frame.data = <<[diameter_mm |-> "12", compression_degree |-> "30"],
                      [diameter_mm |-> "5", compression_degree |-> "7,5"]>>

\* ---------------------------------------------------------------------
\* SpecSplit: the loop of _split_into_sections over the lines of a markup,
\* turn by turn

MaxMarkupParts == 4

\* pieces of markup: a closed section with a line of content and a line that
\* only starts like the closing line, the closing line, a comment with a
\* blank line and an indented line, a second header, a header without a name
MarkupParts ==
    {"[META]\nx { a }\n[END] z\n[END]", "[END]", "# c\n\n  y  ", "[TABLE t]", "[]"}

InitSplit ==
    /\ frame \in {[loop |-> "split", lines |-> split(join("\n", ps), "\n"), i |-> 0,
                   sections |-> SplitInit.sections,
                   current_section |-> SplitInit.current_section,
                   current_content |-> SplitInit.current_content] :
                  ps \in SeqsUpTo(MarkupParts, MaxMarkupParts) \ {<<>>}}
    /\ document_text = ""
    /\ MarkupIdle /\ RegexIdle /\ FindIdle /\ SubIdle /\ KVIdle /\ TableIdle /\ EnginesIdle

\* one turn of `for line in self.markup_text.split('\n')`
SplitStep ==
    /\ frame.loop = "split"
    /\ frame.i < Len(frame.lines)
    /\ LET turn(st) ==
               frame' = [frame EXCEPT !.i = @ + 1, !.sections = st.sections,
                                      !.current_section = st.current_section,
                                      !.current_content = st.current_content]
       IN  turn(split_line([sections |-> frame.sections,
                            current_section |-> frame.current_section,
                            current_content |-> frame.current_content],
                           frame.lines[frame.i + 1]))
    /\ UNCHANGED <<engineVars, document_text, markupVars, regexVars, findVars, subVars,
                   kvVars, tableVars>>

NextSplit == SplitStep

SpecSplit == InitSplit /\ [][NextSplit]_vars

\* the line is neither blank nor a comment
KeptLine(line) == strip(line) # "" /\ ~startswith(strip(line), "#")

\* the line is a header `[KIND name]`
HeaderLine(line) == startswith(strip(line), "[") /\ ~startswith(strip(line), "[END]")

\* the line is the closing line
EndLine(line) == strip(line) = "[END]"

\* what stands between the brackets of a header
HeaderName(line) == Sub(strip(line), 2, Len(strip(line)) - 1)

\* the first header or closing line after line h among the lines 1..n, 0 if none
CloserOf(ls, h, n) ==
    LET later == {c \in (h + 1)..n : HeaderLine(ls[c]) \/ EndLine(ls[c])}
    IN  IF later = {} THEN 0 ELSE CHOOSE c \in later : \A d \in later : c <= d

\* the headers among the lines 1..n that name a section and are followed,
\* within 1..n, by a header or a closing line
ClosedHeaders(ls, n) ==
    {h \in 1..n : HeaderLine(ls[h]) /\ HeaderName(ls[h]) # "" /\ CloserOf(ls, h, n) # 0}

\* the stripped lines lo..hi that are neither blank nor comments
RECURSIVE KeptBetween(_, _, _)
KeptBetween(ls, lo, hi) ==
    IF lo > hi THEN <<>>
    ELSE (IF KeptLine(ls[lo]) THEN <<strip(ls[lo])>> ELSE <<>>) \o KeptBetween(ls, lo + 1, hi)

\* C25: the section splitter emits the sections in markup order, the content
\* of each emitted section being exactly the stripped, non-blank, non-comment
\* lines between its header and the line that closes it; `[END]` returns the
\* splitter to the outside state, and a line read outside belongs to no section.
C25_SectionsInOrderWithContent ==
    frame.loop = "split" =>
        \A hs \in {ClosedHeaders(frame.lines, frame.i)} :
            /\ Len(frame.sections) = Cardinality(hs)
            /\ \A h \in hs :
                   frame.sections[Cardinality({g \in hs : g <= h})]
                       = <<HeaderName(frame.lines[h]),
                           KeptBetween(frame.lines, h + 1,
                                       CloserOf(frame.lines, h, frame.i) - 1)>>
            /\ frame.i > 0 /\ EndLine(frame.lines[frame.i])
                   => frame.current_section = "" /\ frame.current_content = <<>>
            /\ frame.current_section = "" => frame.current_content = <<>>

\* two sections closed by `[END]` have been emitted in order, a comment, a
\* blank line and an outside line standing between them
C25_TwoSectionsAndOutsideLine ==
    /\ frame.loop = "split"
    /\ frame.lines = <<"[META]", "x { a }", "[END] z", "[END]", "# c", "", "  y  ",
                       "[TABLE t]", "[END]">>
    /\ frame.i = 9
    /\ frame.sections = << <<"META", <<"x { a }", "[END] z">> >>, <<"TABLE t", <<>> >> >>

\* C29: every section opened with a header is emitted exactly once, also when
\* the markup ends, or the next header arrives, without a closing `[END]`:
\* when the splitter returns, the number of emitted sections is the number of
\* header lines.
C29_OneSectionPerHeader ==
    frame.loop = "split" /\ frame.i = Len(frame.lines)
        => Len(frame.sections)
               = Cardinality({h \in 1..Len(frame.lines) : HeaderLine(frame.lines[h])})

\* the same for the headers that name a section and are followed by a header
\* or a closing line
OneSectionPerClosedHeader ==
    frame.loop = "split"
        => Len(frame.sections) = Cardinality(ClosedHeaders(frame.lines, frame.i))

\* the splitter has returned and the last section, never closed, is lost
LastSectionLost ==
    /\ frame.loop = "split"
    /\ frame.lines = <<"[META]", "x { a }", "[END] z", "[END]", "[TABLE t]", "# c", "",
                       "  y  ">>
    /\ frame.i = 8
    /\ frame.sections = << <<"META", <<"x { a }", "[END] z">> >> >>
    /\ frame.current_section = "TABLE t"
    /\ frame.current_content = <<"y">>

\* ---------------------------------------------------------------------
\* SpecTableLines: the loop of _parse_table over the content of a [TABLE]
\* section, turn by turn

\* content lines of a [TABLE] section: two directives, a row whose marker the
\* document holds, a row whose marker it does not hold, a plain line and the
\* placeholder line
TableContentLines ==
    {"@COLUMNS:", "@START: 5", "@ROW rec: Rekomend", "@ROW hrc: none", "C", "{{ values }}"}

\* a document that holds, after the marker line, a line of values in which a
\* word stands, and then a line without values
RowDocument == "C 0,99\nRekomend\n0.42 ab n.b.\nx\n0,25"

InitTableLines ==
    /\ frame \in {[loop |-> "parse_table", lines |-> ls, i |-> 0,
                   table_data |-> new_table_data("t"), mode |-> ModeNone] :
                  ls \in SeqsUpTo(TableContentLines, MaxLines) \ {<<>>}}
    /\ document_text = RowDocument
    /\ MarkupIdle /\ RegexIdle /\ FindIdle /\ SubIdle /\ KVIdle /\ TableIdle /\ EnginesIdle

\* one turn of `for line in content`
TableLineStep ==
    /\ frame.loop = "parse_table"
    /\ frame.i < Len(frame.lines)
    /\ LET turn(st) ==
               frame' = [frame EXCEPT !.i = @ + 1, !.table_data = st.table_data,
                                      !.mode = st.mode]
       IN  turn(parse_table_line([table_data |-> frame.table_data, mode |-> frame.mode],
                                 document_text, frame.lines[frame.i + 1]))
    /\ UNCHANGED <<engineVars, document_text, markupVars, regexVars, findVars, subVars,
                   kvVars, tableVars>>

NextTableLines == TableLineStep

SpecTableLines == InitTableLines /\ [][NextTableLines]_vars

\* a directive line
DirectiveLine(line) == startswith(strip(line), "@")

\* the last line before line j that satisfies P, 0 if none
LastBefore(ls, j, P(_)) ==
    LET earlier == {d \in 1..(j - 1) : P(ls[d])}
    IN  IF earlier = {} THEN 0 ELSE CHOOSE d \in earlier : \A e \in earlier : e <= d

\* the stripped lines among 1..n whose position is in S, in order
RECURSIVE LinesAt(_, _, _)
LinesAt(ls, n, S) ==
    IF n = 0 THEN <<>>
    ELSE LinesAt(ls, n - 1, S) \o (IF n \in S THEN <<strip(ls[n])>> ELSE <<>>)

\* the lines among 1..n that are no directives and whose last line before
\* them that satisfies P is `@COLUMNS:`
PlainAfterColumns(ls, n, P(_)) ==
    LinesAt(ls, n, {j \in 1..n :
                       /\ ~DirectiveLine(ls[j])
                       /\ \E d \in {LastBefore(ls, j, P)} :
                              d # 0 /\ strip(ls[d]) = "@COLUMNS:"})

\* C26: inside a [TABLE] section the column list is exactly the non-directive
\* lines that follow `@COLUMNS:` up to the next directive line: after any
\* directive (`@ROW`, `@START:`, `@END:`) a later plain line is not added.
C26_ColumnsUntilNextDirective ==
    frame.loop = "parse_table"
        => frame.table_data.columns = PlainAfterColumns(frame.lines, frame.i, DirectiveLine)

\* the line changes the mode: `@COLUMNS:` or a well-formed @ROW
ModeLine(line) == strip(line) = "@COLUMNS:" \/ startswith(strip(line), "@ROW ")

\* the same for the directives that change the mode
ColumnsUntilNextRow ==
    frame.loop = "parse_table"
        => frame.table_data.columns = PlainAfterColumns(frame.lines, frame.i, ModeLine)

\* a plain line read after `@START:` has become a column
ColumnAfterStart ==
    /\ frame.loop = "parse_table"
    /\ frame.lines = <<"@COLUMNS:", "C", "@START: 5", "C">>
    /\ frame.i = 4
    /\ frame.table_data.table_number = "5"
    /\ frame.table_data.columns = <<"C", "C">>

\* the placeholder line for the values of a row
PlaceholderLine(line) ==
    ~DirectiveLine(line) /\ contains(strip(line), "{{") /\ contains(strip(line), "values")

\* an @ROW directive with a name and a marker
RowLine(line) == startswith(strip(line), "@ROW ")

\* the name and the marker an @ROW directive gives
RowNameOf(line) == Sub(split_ws(strip(line))[2], 1, Len(split_ws(strip(line))[2]) - 1)
RowMarkerOf(line) == split_ws(strip(line))[3]

\* the @ROW directive that is pending before line j: the last line that
\* changes the mode, when it is an @ROW and no placeholder line has followed
\* it; 0 if none
PendingRow(ls, j) ==
    LET d == LastBefore(ls, j, ModeLine)
    IN  IF d # 0 /\ RowLine(ls[d]) /\ \A k \in (d + 1)..(j - 1) : ~PlaceholderLine(ls[k])
        THEN d ELSE 0

\* the tokens that follow the marker line in RowDocument
HarvestOf(marker) == IF marker = "Rekomend" THEN <<"0,42", "n.b.">> ELSE <<>>

\* the row state is the state a pending @ROW has entered, with its name and
\* its marker
RowStateIsPendingRow ==
    frame.loop = "parse_table" =>
        \A d \in {PendingRow(frame.lines, frame.i + 1)} :
            /\ frame.mode.m = "row" <=> d # 0
            /\ d # 0 => /\ frame.mode.row_name = RowNameOf(frame.lines[d])
                        /\ frame.mode.row_marker = RowMarkerOf(frame.lines[d])

\* there are at most as many row entries as @ROW directives read
AtMostOneEntryPerRow ==
    frame.loop = "parse_table" =>
        Cardinality(DOMAIN frame.table_data.rows)
            <= Cardinality({d \in 1..frame.i : RowLine(frame.lines[d])})

\* the turn reads a placeholder line
PlaceholderTurn ==
    /\ frame.loop = "parse_table"
    /\ frame.i < Len(frame.lines)
    /\ PlaceholderLine(frame.lines[frame.i + 1])
    /\ frame'.i = frame.i + 1

\* the turn of a placeholder line in the row state: the tokens found in the
\* document are stored under the name of the row when there are any, and the
\* row state is left
PlaceholderInRowState ==
    \A values \in {HarvestOf(frame.mode.row_marker)} :
        /\ frame'.table_data =
               [frame.table_data EXCEPT
                   !.rows = IF values # <<>> THEN Put(@, frame.mode.row_name, values) ELSE @]
        /\ frame'.mode = ModeNone

\* C27 as stated: a placeholder line has an effect only in the row state
\* entered by `@ROW name: marker`; there it looks the marker up in the
\* document lines, stores the tokens found under rows[name] when there are
\* any and leaves the row state, so each @ROW gives at most one row entry; a
\* placeholder line with no pending @ROW changes nothing.
C27_PlaceholderOnlyInRowState ==
    /\ [](RowStateIsPendingRow /\ AtMostOneEntryPerRow)
    /\ [][PlaceholderTurn =>
              IF frame.mode.m = "row" THEN PlaceholderInRowState
              ELSE frame'.table_data = frame.table_data /\ frame'.mode = frame.mode]_vars

\* C27 (amended): as stated, except that a placeholder line with no pending
\* @ROW starts no lookup and leaves the rows and the state unchanged, but is
\* added to the columns, like any plain line, while columns are collected.
C27_PlaceholderLooksUpInRowState ==
    /\ [](RowStateIsPendingRow /\ AtMostOneEntryPerRow)
    /\ [][PlaceholderTurn =>
              IF frame.mode.m = "row" THEN PlaceholderInRowState
              ELSE /\ frame'.table_data =
                          [frame.table_data EXCEPT
                              !.columns = IF frame.mode.m = "columns"
                                          THEN Append(@, strip(frame.lines[frame.i + 1]))
                                          ELSE @]
                   /\ frame'.mode = frame.mode]_vars

\* a row found in the document has been stored, a row not found has left no
\* entry, and a placeholder line has been read with no @ROW pending
C27_RowStoredOnce ==
    /\ frame.loop = "parse_table"
    /\ frame.lines = <<"@ROW rec: Rekomend", "{{ values }}", "{{ values }}", "@ROW hrc: none">>
    /\ frame.i = 3
    /\ frame.mode = ModeNone
    /\ DOMAIN frame.table_data.rows = {"rec"}
    /\ frame.table_data.rows["rec"] = <<"0,42", "n.b.">>

\* a row whose marker the document does not hold has been read with its
\* placeholder line and has left no entry
RowNotFoundLeavesNoEntry ==
    /\ frame.loop = "parse_table"
    /\ frame.lines = <<"@ROW hrc: none", "{{ values }}">>
    /\ frame.i = 2
    /\ frame.mode = ModeNone
    /\ frame.table_data.rows = EmptyDict

\* ---------------------------------------------------------------------
\* RegexGenerator.generate_regex_patterns: the repair of the backslashes in
\* the answer of the language model, in regex_parser.stable.py and in
\* research/regex_parser.py

Backslash == "\\"

\* s.replace(old, new), old not empty
RECURSIVE replace(_, _, _)
replace(s, old, new) ==
    IF Len(s) < Len(old) THEN s
    ELSE IF Sub(s, 1, Len(old)) = old
    THEN new \o replace(Sub(s, Len(old) + 1, Len(s)), old, new)
    ELSE At(s, 1) \o replace(Sub(s, 2, Len(s)), old, new)

\* stands for '\x00DOUBLE\x00', which no answer drawn here holds
DoubleMarker == "<DOUBLE>"

\* fix_pattern of regex_parser.stable.py: every backslash is doubled
fix_pattern(pattern_value) ==
    "\"pattern\": \"" \o replace(pattern_value, Backslash, Backslash \o Backslash) \o "\""

\* normalize_pattern of research/regex_parser.py: unless the value holds four
\* backslashes in a row, the pairs are set aside, the single backslashes are
\* doubled and the pairs are put back
normalize_pattern(field_name, pattern_value) ==
    LET two == Backslash \o Backslash
        normal(v) ==
            IF ~contains(v, two \o two)
            THEN replace(replace(replace(v, two, DoubleMarker), Backslash, two),
                         DoubleMarker, two)
            ELSE v
    IN  "\"" \o field_name \o "\": \"" \o normal(pattern_value) \o "\""

\* the fields the substitution of each file looks for
FieldNames(file) == IF file = "research" THEN {"pattern", "subsection_pattern"}
                    ELSE {"pattern"}

\* re.sub(r'"(pattern|subsection_pattern)":\s*"([^"]*)"', ..., response), or
\* re.sub(r'"pattern":\s*"([^"]*)"', ..., response), from position i on
RECURSIVE sub_fields(_, _, _)
sub_fields(response, i, file) ==
    LET starts(name) == Sub(response, i, i + Len(name) + 2) = "\"" \o name \o "\":"
        names == {name \in FieldNames(file) : starts(name)}
        \* the position of the quote that opens the value, 0 if none
        RECURSIVE open_quote(_)
        open_quote(k) ==
            IF k > Len(response) THEN 0
            ELSE IF At(response, k) \in SpaceChars THEN open_quote(k + 1)
            ELSE IF At(response, k) = "\"" THEN k ELSE 0
        matched(name, q) ==
            \* q: the quote that opens the value; the value ends at the next quote
            LET close == IF q = 0 THEN 0 ELSE find_from(response, "\"", q + 1)
                value == Sub(response, q + 1, close - 1)
            IN  IF close = 0
                THEN At(response, i) \o sub_fields(response, i + 1, file)
                ELSE (IF file = "research" THEN normalize_pattern(name, value)
                      ELSE fix_pattern(value))
                     \o sub_fields(response, close + 1, file)
        field(name) == matched(name, open_quote(i + Len(name) + 3))
    IN  IF i > Len(response) THEN ""
        ELSE IF names = {} THEN At(response, i) \o sub_fields(response, i + 1, file)
        ELSE field(CHOOSE name \in names : TRUE)

\* stands for the three grave accents of a markdown fence
Fence == "'''"

\* response[json_start:json_end] when the answer holds a markdown fence
strip_fence(response) ==
    LET json_start == find_from(response, "{", 1)
        closing == {k \in 1..Len(response) : At(response, k) = "}"}
        json_end == IF closing = {} THEN 0 ELSE MaxOf(closing)
    IN  IF contains(response, Fence) /\ json_start # 0
        THEN Sub(response, json_start, json_end)
        ELSE response

\* the characters of a JSON string: [ok, v]; of the escapes only the ones the
\* answers drawn here can hold are decoded (\\ \/ \n \t), an escape json does
\* not know makes the string invalid
RECURSIVE json_string(_)
json_string(s) ==
    LET rest(c, n) ==
            LET r == json_string(Sub(s, n + 1, Len(s)))
            IN  IF r.ok THEN [ok |-> TRUE, v |-> c \o r.v] ELSE r
    IN  IF Len(s) = 0 THEN [ok |-> TRUE, v |-> ""]
        ELSE IF At(s, 1) # Backslash THEN rest(At(s, 1), 1)
        ELSE IF At(s, 2) = Backslash THEN rest(Backslash, 2)
        ELSE IF At(s, 2) = "/" THEN rest("/", 2)
        ELSE IF At(s, 2) = "n" THEN rest("\n", 2)
        ELSE IF At(s, 2) = "t" THEN rest("\t", 2)
        ELSE [ok |-> FALSE, v |-> ""]

\* json.loads(response) for an object with the one field "pattern"; {} stands
\* for the JSONDecodeError the caller turns into an empty dict
json_loads(response) ==
    LET head == "{\"pattern\": \""
        body == Sub(response, Len(head) + 1, Len(response) - 2)
        decoded(r) == IF r.ok THEN [pattern |-> r.v] ELSE EmptyDict
    IN  IF startswith(response, head) /\ endswith(response, "\"}") /\ ~contains(body, "\"")
        THEN decoded(json_string(body))
        ELSE EmptyDict

\* generate_regex_patterns from the answer of call_ollama on: [response,
\* patterns]
generate_regex_patterns(file, answer) ==
    LET repaired(response) == [response |-> response, patterns |-> json_loads(response)]
    IN  IF answer = "" THEN [response |-> answer, patterns |-> EmptyDict]
        ELSE repaired(sub_fields(strip_fence(answer), 1, file))

MaxPatternLen == 6

\* the pattern values the model answers with: backslashes and letters
PatternValues == {join("", cs) : cs \in SeqsUpTo({Backslash, "d"}, MaxPatternLen)}

\* the answer that holds the pattern value v, bare or in a markdown fence
AnswerOf(v, fenced) ==
    IF fenced THEN Fence \o "json\n{\"pattern\": \"" \o v \o "\"}\n" \o Fence
    ELSE "{\"pattern\": \"" \o v \o "\"}"

InitRepair ==
    /\ frame \in {[loop |-> "repair", file |-> f, answer |-> AnswerOf(v, fenced),
                   response |-> "", patterns |-> EmptyDict, calls |-> 0] :
                  f \in {"stable", "research"}, v \in PatternValues, fenced \in BOOLEAN}
    /\ document_text = ""
    /\ MarkupIdle /\ RegexIdle /\ FindIdle /\ SubIdle /\ KVIdle /\ TableIdle /\ EnginesIdle

\* one call of generate_regex_patterns of the given file; the second call is
\* given the repaired text of the first as its answer
Generate(file) ==
    /\ frame.loop = "repair"
    /\ frame.file = file
    /\ frame.calls < 2
    /\ LET call(answer) ==
               LET out == generate_regex_patterns(file, answer)
               IN  frame' = [frame EXCEPT !.answer = answer, !.response = out.response,
                                          !.patterns = out.patterns, !.calls = @ + 1]
       IN  call(IF frame.calls = 0 THEN frame.answer ELSE frame.response)
    /\ UNCHANGED <<engineVars, document_text, markupVars, regexVars, findVars, subVars,
                   kvVars, tableVars>>

GenerateStable == Generate("stable")

GenerateResearch == Generate("research")

NextRepair == GenerateStable \/ GenerateResearch

SpecRepair == InitRepair /\ [][NextRepair]_vars

\* the pattern value a text holds: what stands between the quote after the
\* colon and the last quote
ValueIn(text) ==
    LET quotes == {k \in 1..Len(text) : At(text, k) = "\""}
    IN  Sub(text, find_from(text, "\": \"", 1) + 4, MaxOf(quotes) - 1)

\* the lengths of the maximal runs of backslashes of v
RunLengths(v) ==
    LET run(a, b) ==
            /\ \A k \in a..b : At(v, k) = Backslash
            /\ a = 1 \/ At(v, a - 1) # Backslash
            /\ b = Len(v) \/ At(v, b + 1) # Backslash
    IN  {b - a + 1 : <<a, b>> \in {ab \in (1..Len(v)) \X (1..Len(v)) :
                                      ab[1] <= ab[2] /\ run(ab[1], ab[2])}}

\* v with every backslash that stands alone doubled
RECURSIVE SingleToDouble(_)
SingleToDouble(v) ==
    LET alone == /\ At(v, 1) = Backslash /\ At(v, 2) # Backslash
        pair == At(v, 1) = Backslash /\ At(v, 2) = Backslash
    IN  IF Len(v) = 0 THEN ""
        ELSE IF alone THEN Backslash \o Backslash \o SingleToDouble(Sub(v, 2, Len(v)))
        ELSE IF pair THEN Backslash \o Backslash \o SingleToDouble(Sub(v, 3, Len(v)))
        ELSE At(v, 1) \o SingleToDouble(Sub(v, 2, Len(v)))

\* what C28 says of one pass from the value before to the value after, and of
\* the second pass
RepairedAsStated(before, after, calls) ==
    /\ RunLengths(before) \subseteq {1, 2} => after = SingleToDouble(before)
    /\ \A n \in RunLengths(after) : n % 2 = 0
    /\ calls = 2 => after = before

\* C28: the repair pass turns every single-escaped backslash of a pattern
\* value into a double-escaped one and leaves a double-escaped backslash
\* unchanged, so that after the pass every maximal run of backslashes of the
\* value has even length and a second pass changes nothing.
C28_SingleBackslashesDoubledOnce ==
    frame.loop = "repair" /\ frame.calls >= 1
        => RepairedAsStated(ValueIn(frame.answer), ValueIn(frame.response), frame.calls)

\* the same for research/regex_parser.py and the values that hold no four
\* backslashes in a row
NormalizeRepairsShortRuns ==
    frame.loop = "repair" /\ frame.calls >= 1 /\ frame.file = "research"
    /\ (\A n \in RunLengths(ValueIn(frame.answer)) : n < 4)
        => RepairedAsStated(ValueIn(frame.answer), ValueIn(frame.response), frame.calls)

\* in regex_parser.stable.py every run is twice as long after the pass
FixDoublesEveryRun ==
    frame.loop = "repair" /\ frame.calls >= 1 /\ frame.file = "stable"
        => ValueIn(frame.response)
               = replace(ValueIn(frame.answer), Backslash, Backslash \o Backslash)

\* regex_parser.stable.py has made four backslashes of a double-escaped one,
\* and the pattern returned holds a backslash where the answer meant a class
DoubleEscapedDoubledAgain ==
    /\ frame.loop = "repair"
    /\ frame.file = "stable"
    /\ frame.calls = 1
    /\ ValueIn(frame.answer) = "\\\\d"
    /\ ValueIn(frame.response) = "\\\\\\\\d"
    /\ frame.patterns = [pattern |-> "\\\\d"]

\* research/regex_parser.py has left a single backslash as it was beside four
\* backslashes in a row, and the repaired text is no JSON
SingleLeftBesideFour ==
    /\ frame.loop = "repair"
    /\ frame.file = "research"
    /\ frame.calls = 1
    /\ ValueIn(frame.answer) = "\\d\\\\\\\\"
    /\ ValueIn(frame.response) = "\\d\\\\\\\\"
    /\ frame.patterns = EmptyDict

\* ---------------------------------------------------------------------
\* SpecBetween: the loop of _extract_text_between over the lines of a
\* document, turn by turn

\* the markers of the section
StartMarker == "1 Scope"
EndMarker == "2 Terms"

\* document lines: the two headings, a plain line, an indented line, and a
\* line of text that names both headings
BetweenLines == {"1 Scope", "2 Terms", "a", "  b", "see 1 Scope and 2 Terms"}

InitBetween ==
    /\ frame \in {[loop |-> "extract", lines |-> document_lines(join("\n", ls)), i |-> 0,
                   capturing |-> FALSE, text_parts |-> <<>>, stop |-> FALSE] :
                  ls \in SeqsUpTo(BetweenLines, MaxLines) \ {<<>>}}
    /\ document_text = join("\n", frame.lines)
    /\ MarkupIdle /\ RegexIdle /\ FindIdle /\ SubIdle /\ KVIdle /\ TableIdle /\ EnginesIdle

\* one turn of `for line in self.document_lines`
BetweenStep ==
    /\ frame.loop = "extract"
    /\ ~frame.stop
    /\ frame.i < Len(frame.lines)
    /\ LET turn(st) ==
               frame' = [frame EXCEPT !.i = @ + 1, !.capturing = st.capturing,
                                      !.text_parts = st.text_parts, !.stop = st.stop]
       IN  turn(extract_text_step(StartMarker, EndMarker, frame.capturing,
                                  frame.text_parts, frame.lines[frame.i + 1]))
    /\ UNCHANGED <<engineVars, document_text, markupVars, regexVars, findVars, subVars,
                   kvVars, tableVars>>

NextBetween == BetweenStep

SpecBetween == InitBetween /\ [][NextBetween]_vars

\* the lines among 1..n whose position is in S, as they stand, in order
RECURSIVE RawLinesAt(_, _, _)
RawLinesAt(ls, n, S) ==
    IF n = 0 THEN <<>>
    ELSE RawLinesAt(ls, n - 1, S) \o (IF n \in S THEN <<ls[n]>> ELSE <<>>)

HasStart(line) == contains(strip(line), StartMarker)
HasEnd(line) == contains(strip(line), EndMarker)

\* the positions among 1..n after the first line that satisfies First and
\* before the first later line that satisfies Last
WindowOf(ls, n, First(_), Last(_)) ==
    LET starts == {j \in 1..n : First(ls[j])}
        first == IF starts = {} THEN n + 1 ELSE MinOf(starts)
        ends == {j \in (first + 1)..n : Last(ls[j])}
        last == IF ends = {} THEN n + 1 ELSE MinOf(ends)
    IN  (first + 1)..(last - 1)

\* C30: the text captured between the markers consists only of document lines
\* that come after the first line containing the start marker and before the
\* first later line containing the end marker (or the end of the document),
\* in document order; no captured line contains the start marker or the end
\* marker, and an end-marker line before the first start-marker line does not
\* stop the capture.
C30_CapturedBetweenMarkers ==
    frame.loop = "extract" =>
        \A w \in {WindowOf(frame.lines, frame.i, HasStart, HasEnd)} :
            /\ \E J \in SUBSET w : frame.text_parts = RawLinesAt(frame.lines, frame.i, J)
            /\ \A k \in 1..Len(frame.text_parts) :
                   ~HasStart(frame.text_parts[k]) /\ ~HasEnd(frame.text_parts[k])
            /\ frame.stop => \E j \in 1..frame.i : HasStart(frame.lines[j])

\* a line that ends the capture: it holds the end marker and not the start
\* marker
EndsCapture(line) == HasEnd(line) /\ ~HasStart(line)

\* the same with the capture ended only by a line that holds the end marker
\* and not the start marker: the text is then exactly the lines in between
\* that do not hold the start marker
CapturedUntilEndOnlyLine ==
    frame.loop = "extract" =>
        \A w \in {WindowOf(frame.lines, frame.i, HasStart, EndsCapture)} :
            /\ frame.text_parts
                   = RawLinesAt(frame.lines, frame.i, {j \in w : ~HasStart(frame.lines[j])})
            /\ \A k \in 1..Len(frame.text_parts) :
                   ~HasStart(frame.text_parts[k]) /\ ~HasEnd(frame.text_parts[k])
            /\ frame.stop <=> \E e \in 1..frame.i :
                                  /\ EndsCapture(frame.lines[e])
                                  /\ \E j \in 1..(e - 1) : HasStart(frame.lines[j])

\* a line after the line that names both markers has been captured
CapturedPastEndMarkerLine ==
    /\ frame.loop = "extract"
    /\ frame.lines = <<"1 Scope", "a", "see 1 Scope and 2 Terms", "  b">>
    /\ frame.i = 4
    /\ frame.text_parts = <<"a", "  b">>

\* the capture has not been stopped by an end-marker line that comes first
EarlyEndMarkerPassed ==
    /\ frame.loop = "extract"
    /\ frame.lines = <<"2 Terms", "1 Scope", "a", "2 Terms">>
    /\ frame.i = 4
    /\ frame.stop
    /\ frame.text_parts = <<"a">>

====
